---- MODULE Spec2Model ----
(***************************************************************************)
(* Model of drivers/xen/privcmd.c: the batched foreign-frame mapping       *)
(* ioctls (IOCTL_PRIVCMD_MMAPBATCH, _V2), IOCTL_PRIVCMD_MMAP,              *)
(* IOCTL_PRIVCMD_MMAP_RESOURCE and the life of a privcmd mapping region.   *)
(*                                                                         *)
(* Addresses are counted in pages (PAGE_SHIFT is dropped: the code masks   *)
(* every address it hands to the remap primitives with PAGE_MASK), and     *)
(* XEN_PAGE_SIZE == PAGE_SIZE (XEN_PFN_PER_PAGE == 1, as on x86).          *)
(* A frame number is the pair of its bits 28..31 (nib) and its other bits  *)
(* (low): the V1 error patterns only touch bits 28..31.                    *)
(* One caller issues one ioctl at a time; the hypervisor primitives        *)
(* (xen_remap_domain_gfn_array, HYPERVISOR_memory_op, ...) and user-memory *)
(* faults are nondeterministic inputs of the actions.                      *)
(***************************************************************************)
EXTENDS Integers, Sequences, FiniteSets, TLC

\* ---------------------------------------------------------------- bounds
\* Scaled-down page size in bytes (the kernel's is 4096).
PAGE_SIZE == 16
\* Largest m.num / kdata.num / region size (in pages) a caller uses.
MaxNum == 3
\* First page of the mapping region (page 0 is the NULL address).
VmStart == 1
\* Domain ids callers name are 1..MaxDom.
MaxDom == 2
\* Callers keep at most MaxFilters ioeventfd filters registered at a time.
MaxFilters == 2
\* Callers make at most MaxRegs irqfd registrations.
MaxRegs == 2
\* Addresses of the ioeventfd requests are scaled to AddrSpace values (the
\* code's are u64).
AddrSpace == 256

\* ------------------------------------------------------- program constants
SizeofPfn == 8
\* sizeof(struct privcmd_mmap_entry): va, mfn, npages, three 64-bit fields;
\* with the scaled page an entry takes a page of its own.
SizeofMmapEntry == IF 3 * SizeofPfn < PAGE_SIZE THEN 3 * SizeofPfn ELSE PAGE_SIZE
XEN_PFN_PER_PAGE == 1
ENOENT == 2
EFAULT == 14
EINVAL == 22
ENOMEM == 12
ENOSYS == 38
EPERM == 1
EBADF == 9
EBUSY == 16
ENODEV == 19
\* bits 28..31 of PRIVCMD_MMAPBATCH_MFN_ERROR (0xf0000000U)
MFN_ERROR_NIB == 15
\* bits 28..31 of PRIVCMD_MMAPBATCH_PAGED_ERROR (0x80000000U)
PAGED_ERROR_NIB == 8

\* Last page of the modelled address space.
MaxAddr == VmStart + MaxNum
Pages == 0..MaxAddr

\* Nibbles of the frame numbers a caller passes in.
InputNibbles == {0, 7, 8}
\* Per-entry error codes the remap primitive reports.
EntryErrs == {0, -ENOENT, -EINVAL}

\* vm_private_data: NULL, PRIV_VMA_LOCKED or a page array of numpgs pages.
PrivNull == [kind |-> "null", numpgs |-> 0]
PRIV_VMA_LOCKED == [kind |-> "locked", numpgs |-> 0]
PrivPages(n) == [kind |-> "pages", numpgs |-> n]

NoVma == [exists |-> FALSE, vm_start |-> 0, vm_end |-> 0, vm_private_data |-> PrivNull]

VARIABLES
    auto_translated, \* xen_feature(XENFEAT_auto_translated_physmap)
    vma,             \* the privcmd mapping region of the caller's mm
    pte,             \* page -> TRUE when its page-table entry is not none
    paged_out,       \* page -> TRUE when the last batch remap of it gave -ENOENT
    pc,              \* position of the caller: idle, pass1, pass2, done, BUG
    last_op,         \* the ioctl that ran last
    ret,             \* its return value
    m,               \* the privcmd_mmapbatch_v2 header of the batch call
    user_arr,        \* the caller's m.arr, indexed from 1
    user_err,        \* the caller's m.err, indexed from 1
    pagelist,        \* the list of gathered pages
    st,              \* struct mmap_batch_state
    nelem,           \* traverse_pages_block's remaining element count
    pos,             \* traverse_pages_block's position in pagelist
    hist             \* history of the call: blocks, their results, faults

mapVars == <<auto_translated, vma, pte, paged_out, pc, last_op, ret, m, user_arr,
             user_err, pagelist, st, nelem, pos, hist>>

\* The open handle's restriction (struct privcmd_data) and the ioctls that
\* run against it, by two threads sharing the handle.
VARIABLES
    domid,           \* data->domid of the open handle
    rpc,             \* thread -> position in privcmd_ioctl_restrict
    rdom,            \* thread -> the dom its restrict call copied in (0: none)
    rret,            \* thread -> the return value of its restrict call
    granted,         \* history: the doms for which a restrict call returned 0
    rq               \* the last other ioctl request and how far it got

restrictVars == <<domid, rpc, rdom, rret, granted, rq>>

\* The ioeventfd registry (ioreq_list under ioreq_lock), the caller of the
\* ioeventfd ioctl and the interrupt handler of a bound port.
VARIABLES
    ioreq_list,      \* the channels (privcmd_kernel_ioreq), in list order
    ioreq_lock,      \* TRUE while ioreq_lock is held
    io,              \* the ioeventfd assign / deassign call in progress
    irq              \* the last run of ioeventfd_interrupt

ioVars == <<ioreq_list, ioreq_lock, io, irq>>

VARIABLES
    kirqfds,         \* registration id -> the privcmd_kernel_irqfd object
    irqfds_list,     \* the ids on irqfds_list, in list order
    efd,             \* eventfd -> its file (open?) and counter
    asg,             \* the irqfd assign call in progress
    dea,             \* the irqfd deassign call in progress
    injected,        \* the registrations irqfd_inject ran for in the last step
    drained,         \* the registrations a returned deassign found assigned
    oops             \* TRUE once a use of freed memory stopped the kernel

iqVars == <<kirqfds, irqfds_list, efd, asg, dea, injected, drained, oops>>

\* Two threads of one process issue mapping ioctls on the region at the same
\* time.
VARIABLES
    mmap_lock,       \* the thread that holds mm->mmap_lock for writing (0: none)
    lk               \* thread -> its mapping call in progress

lockVars == <<mmap_lock, lk>>

\* A page list being gathered and traversed.
VARIABLES
    tv               \* the gather_array / traverse_pages run in progress

travVars == <<tv>>

auxVars == <<restrictVars, ioVars, iqVars, lockVars, travVars>>
\* Everything but the restriction state, but the ioeventfd registry, but the
\* irqfd state, but the page-list run.
exceptRestrict == <<mapVars, ioVars, iqVars, lockVars, travVars>>
exceptIo == <<mapVars, restrictVars, iqVars, lockVars, travVars>>
exceptIq == <<mapVars, restrictVars, ioVars, lockVars, travVars>>
exceptTrav == <<mapVars, restrictVars, ioVars, iqVars, lockVars>>
\* Everything the steps of a concurrent mapping call leave alone.
lockFrame == <<auto_translated, paged_out, pc, last_op, ret, m, user_arr, user_err,
               pagelist, st, nelem, pos, hist, restrictVars, ioVars, iqVars,
               travVars>>

vars == <<mapVars, auxVars>>

regionVars == <<vma, pte, paged_out>>
callVars == <<m, user_arr, user_err, pagelist, st, nelem, pos, hist>>

\* ---------------------------------------------------------------- helpers
DIV_ROUND_UP(n, d) == (n + d - 1) \div d

Min(a, b) == IF a < b THEN a ELSE b

RECURSIVE SumSeq(_)
SumSeq(s) == IF s = <<>> THEN 0 ELSE Head(s) + SumSeq(Tail(s))

\* The caller's input frame array: frame i (from 0) of a call with nibble nb.
InputFrame(nb, i) == [nib |-> nb, low |-> 100 + i]
InputArr(nb, n) == [i \in 1..n |-> InputFrame(nb, i - 1)]

\* An element of a gathered page: a frame number as gather_array copied it
\* in, or the int error code the remap wrote over it ((int *)gfnp).
GfnSlot(f) == [kind |-> "gfn", nib |-> f.nib, val |-> f.low]
ErrSlot(e) == [kind |-> "err", nib |-> 0, val |-> e]

\* Bitwise OR of two 4-bit values.
BitOr4(a, b) ==
    LET bit(x, k) == (x \div k) % 2
        or(k) == IF bit(a, k) = 1 \/ bit(b, k) = 1 THEN k ELSE 0
    IN or(1) + or(2) + or(4) + or(8)

\* What a run of privcmd_close did: the length of the page array it was given
\* (-1: the payload was no page array), the result of the unmap and, in
\* order, the calls it made on the region's backing pages.
NoTeardown == [array |-> -1, rc |-> 0, events |-> <<>>]

EmptyState == [va |-> 0, index |-> 0, global_error |-> 0, version |-> 0,
               user_gfn |-> 0, user_err |-> 0]
EmptyHist == [pass1 |-> FALSE, block_nr |-> <<>>, block_ret |-> <<>>,
              block_va |-> <<>>, block_index |-> <<>>, errs |-> <<>>,
              pass2_blocks |-> 0, fault |-> FALSE, remap_calls |-> 0,
              reject |-> "none", retry_paged |-> FALSE,
              gathered |-> 0, freed |-> 0, teardown |-> NoTeardown]
EmptyM == [addr |-> 0, num |-> 0, nib |-> 0]

\* ------------------------------------------------------------ gather_array
\* Pages are sequences of elements; the walk below is gather_array's loop.
\* failAt = 0: no failure; otherwise the step for element failAt (from 1)
\* fails: with failRet = -ENOMEM alloc_page returns NULL (only where that
\* element needs a new page), with -EFAULT copy_from_user fails.
RECURSIVE gather_loop(_, _, _, _, _, _, _, _)
gather_loop(pages, pageidx, i, nelemIn, size, data, failAt, failRet) ==
    IF i > nelemIn THEN [ret |-> 0, pages |-> pages]
    ELSE LET needPage == pageidx > PAGE_SIZE - size
             pages1 == IF needPage THEN Append(pages, <<>>) ELSE pages
             idx1 == IF needPage THEN 0 ELSE pageidx
         IN IF failAt = i /\ failRet = -ENOMEM /\ needPage
            THEN [ret |-> -ENOMEM, pages |-> pages]
            ELSE IF failAt = i /\ failRet = -EFAULT
            THEN [ret |-> -EFAULT, pages |-> pages1]
            ELSE gather_loop(
                    [pages1 EXCEPT ![Len(pages1)] = Append(@, data[i])],
                    idx1 + size, i + 1, nelemIn, size, data, failAt, failRet)

gather_array(nelemIn, size, data, failAt, failRet) ==
    IF size > PAGE_SIZE THEN [ret |-> 0, pages |-> <<>>]
    ELSE gather_loop(<<>>, PAGE_SIZE, 1, nelemIn, size, data, failAt, failRet)

\* free_page_list, lines 99-107: every page of the list is freed and the list
\* is made empty; freed is the number of pages handed to __free_page.
free_page_list_Leak(pages) == [list |-> pages, freed |-> 0]
free_page_list(pages) == [list |-> <<>>, freed |-> Len(pages)]

\* traverse_pages_block: the size of the next block.
BlockNr(n, size) == Min(PAGE_SIZE \div size, n)

\* ------------------------------------------------------------ region
\* find_vma(mm, addr) && vma->vm_ops == &privcmd_vm_ops: the first region
\* ending above addr (it need not contain addr).
FindVma(addr) == vma.exists /\ addr < vma.vm_end

\* is_mapped_fn over [addr, addr + nr_pages): some entry is not none.
privcmd_vma_range_is_mapped_WholeVma(addr, nr_pages) ==
    \E p \in vma.vm_start..(vma.vm_end - 1) : pte[p]
privcmd_vma_range_is_mapped_FirstOnly(addr, nr_pages) ==
    addr \in Pages /\ pte[addr]
privcmd_vma_range_is_mapped(addr, nr_pages) ==
    \E p \in addr..(addr + nr_pages - 1) : p \in Pages /\ pte[p]

\* The frame of a finished call is gone once it has returned.
ResetCall ==
    /\ m' = EmptyM
    /\ user_arr' = <<>>
    /\ user_err' = <<>>
    /\ pagelist' = <<>>
    /\ st' = EmptyState
    /\ nelem' = 0
    /\ pos' = 0
    /\ hist' = EmptyHist

\* ------------------------------------------------------------ the handle
\* DOMID_INVALID (0x7FF4): no restriction.
DOMID_INVALID == 32756
Doms == 1..MaxDom
\* The two threads that share the open handle.
Threads == {1, 2}

\* No ioctl other than restrict is recorded.
NoRequest == [kind |-> "none", dom |-> 0, ret |-> 0, passed |-> FALSE]

\* privcmd_open, lines 1545-1557: a new handle is unrestricted.
privcmd_open ==
    /\ domid = DOMID_INVALID
    /\ rpc = [t \in Threads |-> "idle"]
    /\ rdom = [t \in Threads |-> 0]
    /\ rret = [t \in Threads |-> 0]
    /\ granted = {}
    /\ rq = NoRequest

\* ------------------------------------------------- the ioeventfd registry
\* Two shared ioreq buffers (ioeventfd->ioreq), two eventfds, two virtqueue
\* indexes.
Bufs == {1, 2}
Eventfds == {1, 2}
Vqs == {1, 2}
IoIdle == [pc |-> "idle", op |-> "none", eventfd |-> 0, uioreq |-> 0, dom |-> 0,
           vcpus |-> 0, vq |-> 0, valid |-> FALSE, ret |-> 0, unbound |-> {},
           wild |-> FALSE]
NoIoreq == [state |-> "NONE", type |-> "none", dir |-> "none", addr |-> 0,
            size |-> 0, data |-> 0]
IrqIdle == [pc |-> "idle", uioreq |-> 0, vcpu |-> 0, ioreq |-> NoIoreq,
            states |-> <<>>, signals |-> <<>>, notifies |-> <<>>, ret |-> "none"]

\* LIST_HEAD(ioreq_list), DEFINE_MUTEX(ioreq_lock), lines 1096-1097.
ioeventfd_init ==
    /\ ioreq_list = <<>>
    /\ ioreq_lock = FALSE
    /\ io = IoIdle
    /\ irq = IrqIdle

\* A privcmd_kernel_irqfd that was never allocated.
Regs == 1..MaxRegs
NoKirqfd == [eventfd |-> 0, waiting |-> FALSE, pending |-> FALSE, running |-> FALSE,
             freed |-> FALSE, runs |-> 0]
AsgIdle == [pc |-> "idle", eventfd |-> 0, reg |-> 0, valid |-> FALSE, ret |-> 0]
DeaIdle == [pc |-> "idle", eventfd |-> 0, target |-> 0, racing |-> FALSE,
            need |-> [r \in Regs |-> 0], ret |-> 0]

\* Lines 849-850 and privcmd_irqfd_init: no registration, every eventfd open
\* with a zero counter.
irqfd_init ==
    /\ kirqfds = [r \in Regs |-> NoKirqfd]
    /\ irqfds_list = <<>>
    /\ efd = [e \in Eventfds |-> [open |-> TRUE, cnt |-> 0]]
    /\ asg = AsgIdle
    /\ dea = DeaIdle
    /\ injected = {}
    /\ drained = {}
    /\ oops = FALSE

\* A thread with no mapping call in progress.
LkIdle == [pc |-> "idle", op |-> "none", num |-> 0, fail |-> "none", ret |-> 0,
           attached |-> FALSE]

\* init_mm / mm_init: nobody holds the address-space lock.
mmap_lock_init ==
    /\ mmap_lock = 0
    /\ lk = [t \in Threads |-> LkIdle]

\* No page-list run in progress.
TvIdle == [pc |-> "idle", n |-> 0, size |-> 1, stop |-> 0, sret |-> 0,
          pages |-> <<>>, calls |-> <<>>, blocks |-> <<>>, ret |-> 0, bret |-> 0]

\* Everything but the platform and the region: no call in progress, nothing
\* mapped.
InitCalls ==
    /\ privcmd_open
    /\ ioeventfd_init
    /\ irqfd_init
    /\ mmap_lock_init
    /\ tv = TvIdle
    /\ pte = [p \in Pages |-> FALSE]
    /\ paged_out = [p \in Pages |-> FALSE]
    /\ pc = "idle"
    /\ last_op = "none"
    /\ ret = 0
    /\ m = EmptyM
    /\ user_arr = <<>>
    /\ user_err = <<>>
    /\ pagelist = <<>>
    /\ st = EmptyState
    /\ nelem = 0
    /\ pos = 0
    /\ hist = EmptyHist

Init ==
    /\ InitCalls
    /\ auto_translated \in BOOLEAN
    /\ vma = NoVma

\* privcmd_mmap: a new region of size pages, payload unset.
privcmd_mmap(size) ==
    /\ pc = "idle"
    /\ ~vma.exists
    /\ vma' = [exists |-> TRUE, vm_start |-> VmStart, vm_end |-> VmStart + size,
               vm_private_data |-> PrivNull]
    /\ UNCHANGED <<auto_translated, pte, paged_out, pc, last_op, ret, callVars>>

\* vma_pages(vma), in pages.
vma_pages(v) == v.vm_end - v.vm_start

\* privcmd_close, lines 1567-1584, on region v when xen_unmap_domain_gfn_range
\* returns rc: the calls made on the backing pages. Entry i of the array is
\* named by its index; numpgs is taken from the region, not from the array.
close_events(v, rc) ==
    LET pages == v.vm_private_data
        numpgs == vma_pages(v)
    IN IF ~auto_translated \/ numpgs = 0 \/ pages = PrivNull THEN <<>>
       ELSE <<[op |-> "unmap", page |-> 0]>>
            \o (IF rc = 0 THEN [i \in 1..numpgs |-> [op |-> "release", page |-> i]]
                ELSE <<>>)

\* munmap of the region: the mm clears its page-table entries and calls
\* privcmd_close. When the region is longer than the page array, the unmap
\* and the release read past the end of the array: the kernel stops, or goes
\* on with whatever it read.
privcmd_close ==
    /\ pc = "idle"
    /\ UNCHANGED auxVars
    /\ vma.exists
    /\ vma' = NoVma
    /\ pte' = [p \in Pages |->
                 IF p >= vma.vm_start /\ p < vma.vm_end THEN FALSE ELSE pte[p]]
    /\ paged_out' = [p \in Pages |->
                 IF p >= vma.vm_start /\ p < vma.vm_end THEN FALSE ELSE paged_out[p]]
    /\ \E rc \in {0, -EINVAL} :
          LET pages == vma.vm_private_data
              ev == close_events(vma, rc)
              past == ev # <<>> /\ vma_pages(vma) > pages.numpgs
          IN /\ rc # 0 => ev # <<>>
             /\ hist' = [EmptyHist EXCEPT
                            !.teardown = [array |-> IF pages.kind = "pages"
                                                    THEN pages.numpgs ELSE -1,
                                          rc |-> rc, events |-> ev]]
             /\ pc' \in (IF past THEN {"done", "BUG"} ELSE {"done"})
    /\ last_op' = "close"
    /\ ret' = 0
    /\ UNCHANGED <<auto_translated, m, user_arr, user_err, pagelist, st, nelem, pos>>

\* ------------------------------------------------- privcmd_ioctl_mmap_batch
\* alloc_empty_pages on a region whose payload is unset.
alloc_empty_pages(v, numpgs) == [v EXCEPT !.vm_private_data = PrivPages(numpgs)]

\* History: the call targets a region whose payload is set and a non-empty
\* range made only of pages whose last remap reported -ENOENT.
RetryOfPagedOut(addr, nr_pages) ==
    /\ vma.exists /\ vma.vm_private_data # PrivNull
    /\ nr_pages > 0
    /\ \A p \in addr..(addr + nr_pages - 1) : p \in Pages /\ paged_out[p]

\* The call returns err before the first pass: at once (pages = <<>>, nothing
\* was gathered) or through out / out_unlock, where the gathered pages are
\* freed.
BatchReturnEarly(version, req, err, why, uerr, pages) ==
    /\ pc' = "done"
    /\ last_op' = "mmap_batch"
    /\ ret' = err
    /\ m' = req
    /\ user_arr' = InputArr(req.nib, req.num)
    /\ user_err' = uerr
    /\ pagelist' = free_page_list(pages).list
    /\ st' = [EmptyState EXCEPT !.version = version]
    /\ nelem' = 0
    /\ pos' = 0
    /\ hist' = [EmptyHist EXCEPT
                   !.reject = why,
                   !.gathered = Len(pages),
                   !.freed = free_page_list(pages).freed,
                   !.retry_paged = RetryOfPagedOut(req.addr,
                                      DIV_ROUND_UP(req.num, XEN_PFN_PER_PAGE))]
    /\ UNCHANGED <<auto_translated, vma, pte, paged_out>>

\* Lines 463-557: header copy, validation, gather_array, clear_user, region
\* lookup and payload check/attach, up to the start of the first pass.
\* fail names the step that fails (if any): "copy" (copy_from_user or
\* access_ok), "gather_fault", "gather_nomem" (at element failAt), "clear"
\* (clear_user), "alloc" (alloc_empty_pages).
privcmd_ioctl_mmap_batch(version, addr, num, nib, fail, failAt) ==
    /\ pc = "idle"
    /\ LET req == [addr |-> addr, num |-> num, nib |-> nib]
           nr_pages == DIV_ROUND_UP(num, XEN_PFN_PER_PAGE)
           data == InputArr(nib, num)
           g == gather_array(num, SizeofPfn, [i \in 1..num |-> GfnSlot(data[i])],
                             IF fail \in {"gather_fault", "gather_nomem"}
                             THEN failAt ELSE 0,
                             IF fail = "gather_nomem" THEN -ENOMEM ELSE -EFAULT)
           noerr == <<>>
           zeroed == IF version = 2 THEN [i \in 1..num |-> 0] ELSE <<>>
           priv == vma.vm_private_data
       IN
       IF fail = "copy" THEN
           BatchReturnEarly(version, req, -EFAULT, "copy", noerr, <<>>)
       ELSE IF num <= 0 THEN
           BatchReturnEarly(version, req, -EINVAL, "num", noerr, <<>>)
       ELSE IF g.ret # 0 THEN
           BatchReturnEarly(version, req, g.ret, "gather", noerr, g.pages)
       ELSE IF g.pages = <<>> THEN
           BatchReturnEarly(version, req, -EINVAL, "empty", noerr, g.pages)
       ELSE IF version = 2 /\ fail = "clear" THEN
           BatchReturnEarly(version, req, -EFAULT, "clear", noerr, g.pages)
       ELSE IF ~FindVma(addr) THEN
           BatchReturnEarly(version, req, -EINVAL, "no_vma", zeroed, g.pages)
       ELSE IF priv = PrivNull
               /\ (addr # vma.vm_start \/ addr + nr_pages # vma.vm_end) THEN
           BatchReturnEarly(version, req, -EINVAL, "not_whole", zeroed, g.pages)
       ELSE IF priv = PrivNull /\ auto_translated /\ fail = "alloc" THEN
           BatchReturnEarly(version, req, -ENOMEM, "alloc", zeroed, g.pages)
       ELSE IF priv # PrivNull
               /\ (addr < vma.vm_start \/ addr + nr_pages > vma.vm_end) THEN
           BatchReturnEarly(version, req, -EINVAL, "out_of_range", zeroed, g.pages)
       ELSE IF priv # PrivNull /\ privcmd_vma_range_is_mapped(addr, nr_pages) THEN
           BatchReturnEarly(version, req, -EINVAL, "already_mapped", zeroed, g.pages)
       ELSE
           /\ vma' = IF priv # PrivNull THEN vma
                     ELSE IF auto_translated THEN alloc_empty_pages(vma, nr_pages)
                     ELSE [vma EXCEPT !.vm_private_data = PRIV_VMA_LOCKED]
           /\ pc' = "pass1"
           /\ last_op' = "mmap_batch"
           /\ ret' = 0
           /\ m' = req
           /\ user_arr' = data
           /\ user_err' = zeroed
           /\ pagelist' = g.pages
           /\ st' = [va |-> addr, index |-> 0, global_error |-> 0,
                     version |-> version, user_gfn |-> 0, user_err |-> 0]
           /\ nelem' = num
           /\ pos' = 0
           /\ hist' = [EmptyHist EXCEPT
                          !.pass1 = TRUE,
                          !.gathered = Len(g.pages),
                          !.retry_paged = RetryOfPagedOut(addr, nr_pages)]
           /\ UNCHANGED <<auto_translated, pte, paged_out>>

\* xen_remap_domain_gfn_array on a block with per-entry results errs reports
\* nr when every entry was mapped; otherwise fewer than nr, or one of the
\* negative codes it met.
NumMapped(errs) == Cardinality({i \in DOMAIN errs : errs[i] = 0})
RemapReturns(errs) ==
    IF \A i \in DOMAIN errs : errs[i] = 0 THEN {Len(errs)}
    ELSE {NumMapped(errs)} \cup {errs[i] : i \in {j \in DOMAIN errs : errs[j] # 0}}

\* mmap_batch_fn, lines 360-369: the global error after a block of nr entries
\* for which the remap returned r.
NextGlobalError_Overwrite(ge, r, nr) ==
    IF r # nr THEN (IF r = -ENOENT THEN -ENOENT ELSE 1) ELSE ge
NextGlobalError_FirstWins(ge, r, nr) ==
    IF r # nr /\ ge = 0 THEN (IF r = -ENOENT THEN -ENOENT ELSE 1) ELSE ge
NextGlobalError(ge, r, nr) ==
    IF r # nr
    THEN IF r = -ENOENT THEN -ENOENT
         ELSE IF ge = 0 THEN 1 ELSE ge
    ELSE ge

\* mmap_batch_fn, lines 370-371: the cursor and page index after a block.
AdvanceVa(va, nr) == va + nr
AdvanceIndex(index, nr) == index + nr \div XEN_PFN_PER_PAGE

\* mmap_batch_fn, line 373: the callback's own return value, whatever the
\* remap returned.
mmap_batch_fn_ret_Propagate(r, nr) == IF r < 0 THEN r ELSE 0
mmap_batch_fn_ret(r, nr) == 0

\* One iteration of the first pass: traverse_pages_block takes the next page
\* and mmap_batch_fn remaps its nr frames; errs are the per-entry results the
\* remap writes over the frames, r is its return value.
mmap_batch_fn ==
    /\ pc = "pass1"
    /\ UNCHANGED auxVars
    /\ nelem > 0
    /\ LET nr == BlockNr(nelem, SizeofPfn)
       IN \E errs \in [1..nr -> EntryErrs] : \E r \in RemapReturns(errs) :
          /\ pos' = pos + 1
          /\ pagelist' = [pagelist EXCEPT
                             ![pos + 1] = [i \in 1..nr |-> ErrSlot(errs[i])]]
          /\ pte' = [p \in Pages |->
                       IF p >= st.va /\ p < st.va + nr /\ errs[p - st.va + 1] = 0
                       THEN TRUE ELSE pte[p]]
          /\ paged_out' = [p \in Pages |->
                       IF p >= st.va /\ p < st.va + nr
                       THEN errs[p - st.va + 1] = -ENOENT ELSE paged_out[p]]
          /\ st' = [st EXCEPT
                      !.global_error = NextGlobalError(st.global_error, r, nr),
                      !.va = AdvanceVa(st.va, nr),
                      !.index = AdvanceIndex(st.index, nr)]
          /\ IF mmap_batch_fn_ret(r, nr) # 0
             THEN /\ pc' = "BUG"    \* BUG_ON(traverse_pages_block(...))
                  /\ nelem' = nelem
             ELSE /\ pc' = pc
                  /\ nelem' = nelem - nr
          /\ hist' = [hist EXCEPT
                      !.block_nr = Append(@, nr),
                      !.block_ret = Append(@, r),
                      !.block_va = Append(@, st.va),
                      !.block_index = Append(@, st.index),
                      !.errs = @ \o errs,
                      !.remap_calls = @ + 1]
    /\ UNCHANGED <<auto_translated, vma, last_op, ret, m, user_arr, user_err>>

\* Lines 575-578: the value the call returns, from the second pass's result
\* r (0 when it did not run) and the global error.
FinalRet_NoEnoent(r, ge) == r
FinalRet(r, ge) == IF r = 0 /\ ge = -ENOENT THEN -ENOENT ELSE r

\* Line 566: is the second pass run?
NeedSecondPass_Always(ge) == TRUE
NeedSecondPass(ge) == ge # 0

\* Lines 564-582 after the first pass: start the second pass, or return.
mmap_batch_pass1_done ==
    /\ pc = "pass1"
    /\ UNCHANGED auxVars
    /\ nelem = 0
    /\ IF NeedSecondPass(st.global_error)
       THEN /\ pc' = "pass2"
            /\ st' = [st EXCEPT !.user_gfn = 0, !.user_err = 0]
            /\ nelem' = m.num
            /\ pos' = 0
            /\ UNCHANGED <<ret, pagelist, hist>>
       ELSE /\ pc' = "done"
            /\ ret' = FinalRet(0, st.global_error)
            /\ pagelist' = free_page_list(pagelist).list
            /\ hist' = [hist EXCEPT !.freed = free_page_list(pagelist).freed]
            /\ UNCHANGED <<st, nelem, pos>>
    /\ UNCHANGED <<auto_translated, vma, pte, paged_out, last_op, m, user_arr,
                   user_err>>

\* The frame number with a V1 error pattern ORed into bits 28..31.
V1Encode_Swapped(gfn, err) ==
    [gfn EXCEPT !.nib = BitOr4(@, IF err = -ENOENT THEN MFN_ERROR_NIB
                                  ELSE PAGED_ERROR_NIB)]
V1Encode(gfn, err) ==
    [gfn EXCEPT !.nib = BitOr4(@, IF err = -ENOENT THEN PAGED_ERROR_NIB
                                  ELSE MFN_ERROR_NIB)]

\* How a V1 caller reads a slot back: bits 28..31.
V1Decode(gfn) ==
    IF gfn.nib = PAGED_ERROR_NIB THEN "paged"
    ELSE IF gfn.nib = MFN_ERROR_NIB THEN "other"
    ELSE "none"

\* mmap_return_error for one entry with result err; s is the record
\* [st, arr, err, ret] of the batch state, the caller's two arrays and the
\* return value; fault says whether the user access of this entry fails.
mmap_return_error_NoAdvance(err, s, fault) ==
    IF s.st.version = 1
    THEN IF err # 0
         THEN IF fault THEN [s EXCEPT !.ret = -EFAULT]
              ELSE [s EXCEPT !.arr[s.st.user_gfn + 1] = V1Encode(@, err),
                             !.st.user_gfn = @ + 1]
         ELSE s
    ELSE IF err # 0
         THEN IF fault THEN [s EXCEPT !.ret = -EFAULT]
              ELSE [s EXCEPT !.err[s.st.user_err + 1] = err,
                             !.st.user_err = @ + 1]
         ELSE s
mmap_return_error(err, s, fault) ==
    IF s.st.version = 1
    THEN IF err # 0
         THEN IF fault THEN [s EXCEPT !.ret = -EFAULT]
              ELSE [s EXCEPT !.arr[s.st.user_gfn + 1] = V1Encode(@, err),
                             !.st.user_gfn = @ + 1]
         ELSE [s EXCEPT !.st.user_gfn = @ + 1]
    ELSE IF err # 0
         THEN IF fault THEN [s EXCEPT !.ret = -EFAULT]
              ELSE [s EXCEPT !.err[s.st.user_err + 1] = err,
                             !.st.user_err = @ + 1]
         ELSE [s EXCEPT !.st.user_err = @ + 1]

\* mmap_return_errors: entries i..nr of a block; the faultAt-th entry's user
\* access fails (0: none does).
RECURSIVE mmap_return_errors(_, _, _, _, _)
mmap_return_errors(errs, i, nr, s, faultAt) ==
    IF i > nr THEN s
    ELSE LET s1 == mmap_return_error(errs[i], s, i = faultAt)
         IN IF s1.ret < 0 THEN s1
            ELSE mmap_return_errors(errs, i + 1, nr, s1, faultAt)

\* One iteration of the second pass: traverse_pages_block takes the next page
\* and mmap_return_errors writes its results back; on a fault the traversal
\* stops and the call returns (lines 570-582).
mmap_return_errors_block ==
    /\ pc = "pass2"
    /\ UNCHANGED auxVars
    /\ nelem > 0
    /\ LET nr == BlockNr(nelem, SizeofPfn)
           errs == [i \in 1..nr |-> pagelist[pos + 1][i].val]
       IN \E faultAt \in {0} \cup {i \in 1..nr : errs[i] # 0} :
          LET s == mmap_return_errors(errs, 1, nr,
                      [st |-> st, arr |-> user_arr, err |-> user_err, ret |-> 0],
                      faultAt)
          IN /\ st' = s.st
             /\ user_arr' = s.arr
             /\ user_err' = s.err
             /\ hist' = [hist EXCEPT !.pass2_blocks = @ + 1,
                                     !.fault = (s.ret < 0),
                                     !.freed = IF s.ret # 0
                                               THEN free_page_list(pagelist).freed
                                               ELSE @]
             /\ IF s.ret # 0
                THEN /\ pc' = "done"
                     /\ ret' = FinalRet(s.ret, st.global_error)
                     /\ pagelist' = free_page_list(pagelist).list
                     /\ UNCHANGED <<nelem, pos>>
                ELSE /\ pos' = pos + 1
                     /\ nelem' = nelem - nr
                     /\ UNCHANGED <<pc, ret, pagelist>>
    /\ UNCHANGED <<auto_translated, vma, pte, paged_out, last_op, m>>

\* Lines 575-582 after a second pass that ran to its end.
mmap_batch_return ==
    /\ pc = "pass2"
    /\ UNCHANGED auxVars
    /\ nelem = 0
    /\ pc' = "done"
    /\ ret' = FinalRet(0, st.global_error)
    /\ pagelist' = free_page_list(pagelist).list
    /\ hist' = [hist EXCEPT !.freed = free_page_list(pagelist).freed]
    /\ UNCHANGED <<auto_translated, vma, pte, paged_out, last_op, m, user_arr,
                   user_err, st, nelem, pos>>

\* ------------------------------------------------------ privcmd_ioctl_mmap
\* A finished call other than a batch call: only its result is kept.
OtherReturn(op, err) ==
    /\ pc' = "done"
    /\ last_op' = op
    /\ ret' = err
    /\ ResetCall

\* privcmd_ioctl_mmap returns err through out (line 315): the gathered pages
\* are freed.
MmapReturn(err, pages) ==
    /\ pc' = "done"
    /\ last_op' = "mmap"
    /\ ret' = err
    /\ m' = EmptyM
    /\ user_arr' = <<>>
    /\ user_err' = <<>>
    /\ pagelist' = free_page_list(pages).list
    /\ st' = EmptyState
    /\ nelem' = 0
    /\ pos' = 0
    /\ hist' = [EmptyHist EXCEPT !.gathered = Len(pages),
                                 !.freed = free_page_list(pages).freed]

\* vma_lookup(mm, va): the region containing va.
VmaLookup(va) == vma.exists /\ va >= vma.vm_start /\ va < vma.vm_end

\* traverse_pages over the entries with mmap_gfn_range: entry i (from 1) is
\* msgs[i] = [va, npages]; the remap of entry failEntry fails with -EINVAL
\* after mapping failDone of its pages (failEntry = 0: no remap fails).
\* The result is [rc, va, mapped]: the return value, the cursor and the set
\* of pages mapped.
RECURSIVE mmap_gfn_range_loop(_, _, _, _, _)
mmap_gfn_range_loop(msgs, i, s, failEntry, failDone) ==
    IF i > Len(msgs) THEN s
    ELSE LET msg == msgs[i]
         IN IF msg.va # s.va \/ msg.va + msg.npages > vma.vm_end
            THEN [s EXCEPT !.rc = -EINVAL]
            ELSE IF i = failEntry
            THEN [s EXCEPT !.rc = -EINVAL,
                           !.mapped = @ \cup (msg.va..(msg.va + Min(failDone, msg.npages) - 1))]
            ELSE mmap_gfn_range_loop(msgs, i + 1,
                    [s EXCEPT !.va = @ + msg.npages,
                              !.mapped = @ \cup (msg.va..(msg.va + msg.npages - 1))],
                    failEntry, failDone)

\* Line 299: the payload privcmd_ioctl_mmap leaves on the region, whatever
\* the traversal that follows returns (rc).
MmapPayload(v, rc) == [v EXCEPT !.vm_private_data = PRIV_VMA_LOCKED]

\* privcmd_ioctl_mmap, lines 259-318. fail: "none", "copy" (copy_from_user),
\* "gather" (gather_array fails with gret at the last entry).
privcmd_ioctl_mmap(msgs, fail, gret, failEntry, failDone) ==
    /\ pc = "idle"
    /\ LET g == gather_array(Len(msgs), SizeofMmapEntry, msgs,
                             IF fail = "gather" THEN Len(msgs) ELSE 0, gret)
       IN
       IF auto_translated THEN
           /\ OtherReturn("mmap", -ENOSYS)
           /\ UNCHANGED <<auto_translated, vma, pte, paged_out>>
       ELSE IF fail = "copy" THEN
           /\ OtherReturn("mmap", -EFAULT)
           /\ UNCHANGED <<auto_translated, vma, pte, paged_out>>
       ELSE IF g.ret # 0 \/ g.pages = <<>> THEN
           \* with list_empty(&pagelist) rc is gather_array's 0
           /\ MmapReturn(g.ret, g.pages)
           /\ UNCHANGED <<auto_translated, vma, pte, paged_out>>
       ELSE IF ~VmaLookup(g.pages[1][1].va) \/ g.pages[1][1].va # vma.vm_start
               \/ vma.vm_private_data # PrivNull THEN
           /\ MmapReturn(-EINVAL, g.pages)
           /\ UNCHANGED <<auto_translated, vma, pte, paged_out>>
       ELSE
           LET s == mmap_gfn_range_loop(msgs, 1,
                       [rc |-> 0, va |-> vma.vm_start, mapped |-> {}],
                       failEntry, failDone)
           IN /\ vma' = MmapPayload(vma, s.rc)
              /\ pte' = [p \in Pages |-> pte[p] \/ p \in s.mapped]
              /\ paged_out' = [p \in Pages |-> paged_out[p] /\ p \notin s.mapped]
              /\ MmapReturn(s.rc, g.pages)
              /\ UNCHANGED auto_translated

\* The privcmd_mmap_entry arrays a caller passes: up to two entries.
MmapEntry(vas) == [va : vas, npages : 0..MaxNum]
MmapMsgs ==
    {<<>>} \cup {<<e>> : e \in MmapEntry({VmStart, VmStart + 1})}
    \cup UNION {{<<e, f>> : f \in MmapEntry({e.va + e.npages, e.va + e.npages + 1})} :
                e \in MmapEntry({VmStart})}

\* The outcomes a call can be given: <<fail, gret, failEntry, failDone>>.
MmapOutcomes(msgs) ==
    {<<"none", 0, 0, 0>>, <<"copy", 0, 0, 0>>,
     <<"gather", -ENOMEM, 0, 0>>, <<"gather", -EFAULT, 0, 0>>}
    \cup {<<"none", 0, k, d>> : k \in 1..Len(msgs), d \in 0..1}

MmapCall ==
    /\ pc = "idle"
    /\ UNCHANGED auxVars
    /\ \E msgs \in MmapMsgs : \E o \in MmapOutcomes(msgs) :
          privcmd_ioctl_mmap(msgs, o[1], o[2], o[3], o[4])

\* --------------------------------------------- privcmd_ioctl_mmap_resource
\* Lines 827-836: the return value when xen_remap_domain_mfn_array mapped
\* num of the requested entries, with per-entry results errs (rc is 0 on
\* entry: the acquire hypercall succeeded).
RECURSIVE FirstErr(_, _, _, _)
FirstErr(errs, i, num, rc) ==
    IF i > num THEN rc
    ELSE IF errs[i] < 0 THEN errs[i]
    ELSE FirstErr(errs, i + 1, num, errs[i])

mmap_resource_rc(num, requested, errs) ==
    IF num < 0 THEN num
    ELSE IF num # requested THEN FirstErr(errs, 1, num, 0)
    ELSE 0

\* Lines 778-779 and 810-811: does mmap_resource back the range with
\* placeholder pages (IS_ENABLED(CONFIG_XEN_AUTO_XLATE), which every
\* auto-translated build sets, && xen_feature(XENFEAT_auto_translated_physmap))?
ResourceUsesPlaceholders_Never == FALSE
ResourceUsesPlaceholders == auto_translated

\* privcmd_ioctl_mmap_resource, lines 730-844. fail: "none", "copy"
\* (copy_from_user), "query" / "hcall" (HYPERVISOR_memory_op fails),
\* "kcalloc", "alloc" (alloc_empty_pages), "remap" (xen_remap_vma_range).
\* errs / r: the results of xen_remap_domain_mfn_array.
privcmd_ioctl_mmap_resource(addr, num, fail, errs, r) ==
    /\ pc = "idle"
    /\ IF fail = "copy" THEN
           /\ OtherReturn("mmap_resource", -EFAULT)
           /\ UNCHANGED <<auto_translated, vma, pte, paged_out>>
       ELSE IF (addr # 0) # (num # 0) THEN
           /\ OtherReturn("mmap_resource", -EINVAL)
           /\ UNCHANGED <<auto_translated, vma, pte, paged_out>>
       ELSE IF addr = 0 /\ num = 0 THEN
           \* query the size of the resource
           /\ OtherReturn("mmap_resource",
                          IF fail = "query" THEN -EINVAL
                          ELSE IF fail = "put_user" THEN -EFAULT ELSE 0)
           /\ UNCHANGED <<auto_translated, vma, pte, paged_out>>
       ELSE IF ~FindVma(addr) THEN
           /\ OtherReturn("mmap_resource", -EINVAL)
           /\ UNCHANGED <<auto_translated, vma, pte, paged_out>>
       ELSE IF fail \in {"kcalloc"} \/ (ResourceUsesPlaceholders /\ fail = "alloc") THEN
           /\ OtherReturn("mmap_resource", -ENOMEM)
           /\ UNCHANGED <<auto_translated, vma, pte, paged_out>>
       ELSE IF ResourceUsesPlaceholders /\ vma.vm_private_data # PrivNull THEN
           \* BUG_ON(vma->vm_private_data != NULL) in alloc_empty_pages
           /\ pc' = "BUG"
           /\ last_op' = "mmap_resource"
           /\ ret' = 0
           /\ ResetCall
           /\ UNCHANGED <<auto_translated, vma, pte, paged_out>>
       ELSE
           LET v1 == IF ResourceUsesPlaceholders
                     THEN alloc_empty_pages(vma, DIV_ROUND_UP(num, XEN_PFN_PER_PAGE))
                     ELSE [vma EXCEPT !.vm_private_data = PRIV_VMA_LOCKED]
               range == addr..(addr + num - 1)
               failed == fail = "hcall" \/ (ResourceUsesPlaceholders /\ fail = "remap")
               mapped == IF failed THEN {}
                         ELSE IF ResourceUsesPlaceholders THEN range
                         ELSE {addr + i - 1 : i \in {j \in 1..num : errs[j] = 0}}
               rc == IF failed THEN -EINVAL
                     ELSE IF ResourceUsesPlaceholders THEN 0
                     ELSE mmap_resource_rc(r, num, errs)
           IN /\ vma' = v1
              /\ pte' = [p \in Pages |-> pte[p] \/ p \in mapped]
              /\ paged_out' = [p \in Pages |-> paged_out[p] /\ p \notin mapped]
              /\ pc' = "done"
              /\ last_op' = "mmap_resource"
              /\ ret' = rc
              /\ m' = EmptyM
              /\ user_arr' = <<>>
              /\ user_err' = <<>>
              /\ pagelist' = <<>>
              /\ st' = EmptyState
              /\ nelem' = 0
              /\ pos' = 0
              \* history: what xen_remap_domain_mfn_array was asked and gave
              /\ hist' = IF failed \/ ResourceUsesPlaceholders THEN EmptyHist
                         ELSE [EmptyHist EXCEPT !.block_nr = <<num>>,
                                                !.block_ret = <<r>>,
                                                !.errs = errs,
                                                !.remap_calls = 1]
              /\ UNCHANGED auto_translated

ResourceFails == {"none", "copy", "query", "put_user", "hcall", "kcalloc", "alloc", "remap"}

\* The callers modelled ask for ranges that start inside their region (or,
\* with no region, inside the modelled address space); a range that runs past
\* the end of the region is asked for with placeholder pages and refused by
\* the hypervisor.
MmapResourceCall ==
    /\ pc = "idle"
    /\ UNCHANGED auxVars
    /\ \E addr \in Pages, num \in 0..MaxNum :
       /\ addr + num - 1 <= MaxAddr
       /\ \E fail \in ResourceFails :
          /\ (vma.exists /\ num > 0) =>
                /\ addr >= vma.vm_start
                /\ addr + num <= vma.vm_end
                   \/ (ResourceUsesPlaceholders /\ fail = "hcall" /\ addr = vma.vm_start)
          /\ \/ /\ fail # "none" \/ ResourceUsesPlaceholders \/ num = 0
                /\ fail \in {"query", "put_user"} => num = 0
                /\ fail \in {"alloc", "remap"} => ResourceUsesPlaceholders
                /\ privcmd_ioctl_mmap_resource(addr, num, fail, <<>>, 0)
             \/ /\ fail = "none" /\ ~ResourceUsesPlaceholders /\ num > 0
                /\ \E errs \in [1..num -> EntryErrs] : \E r \in RemapReturns(errs) :
                   privcmd_ioctl_mmap_resource(addr, num, fail, errs, r)

\* The ioctl returns to its caller.
ioctl_return ==
    /\ pc = "done"
    /\ UNCHANGED auxVars
    /\ pc' = "idle"
    /\ last_op' = "none"
    /\ ret' = 0
    /\ ResetCall
    /\ UNCHANGED <<auto_translated, vma, pte, paged_out>>

Versions == {1, 2}
\* Frame nibbles only matter to the V1 write-back.
NibblesOf(version) == IF version = 1 THEN InputNibbles ELSE {0}
\* The failures a batch call of num entries can be given: <<step, element>>.
BatchFails(version, num) ==
    {<<"none", 0>>, <<"copy", 0>>, <<"alloc", 0>>}
    \cup (IF version = 2 THEN {<<"clear", 0>>} ELSE {})
    \cup ({"gather_fault", "gather_nomem"} \X (1..num))

MmapRegion ==
    /\ pc = "idle"
    /\ UNCHANGED auxVars
    /\ \E size \in 1..MaxNum : privcmd_mmap(size)

\* Failures are injected into the calls that name the start of the region.
MmapBatchCall ==
    /\ pc = "idle"
    /\ UNCHANGED auxVars
    /\ \E version \in Versions, addr \in Pages, num \in 0..MaxNum :
       \E nib \in NibblesOf(version), f \in BatchFails(version, num) :
          /\ f[1] # "none" => addr = VmStart
          /\ privcmd_ioctl_mmap_batch(version, addr, num, nib, f[1], f[2])

Next ==
    \/ MmapRegion
    \/ privcmd_close
    \/ MmapBatchCall
    \/ MmapCall
    \/ MmapResourceCall
    \/ mmap_batch_fn
    \/ mmap_batch_pass1_done
    \/ mmap_return_errors_block
    \/ mmap_batch_return
    \/ ioctl_return

Spec == Init /\ [][Next]_vars

\* ============================================================ restriction
\* privcmd_ioctl_restrict, lines 713-728, one step per access to data->domid:
\* nothing serialises the ioctls of two threads on one handle.

\* Line 718: copy_from_user(&dom, udata, sizeof(dom)).
restrict_copy(t, dom, ok) ==
    /\ rpc[t] = "idle"
    /\ IF ok
       THEN /\ rdom' = [rdom EXCEPT ![t] = dom]
            /\ rpc' = [rpc EXCEPT ![t] = "test"]
            /\ UNCHANGED rret
       ELSE /\ rret' = [rret EXCEPT ![t] = -EFAULT]
            /\ rpc' = [rpc EXCEPT ![t] = "done"]
            /\ UNCHANGED rdom
    /\ UNCHANGED <<domid, granted, rq, exceptRestrict>>

\* Line 722: if (data->domid == DOMID_INVALID).
IsUnrestricted_Never(d) == FALSE
IsUnrestricted(d) == d = DOMID_INVALID

restrict_test(t) ==
    /\ rpc[t] = "test"
    /\ rpc' = [rpc EXCEPT ![t] = IF IsUnrestricted(domid) THEN "set" ELSE "cmp"]
    /\ UNCHANGED <<domid, rdom, rret, granted, rq, exceptRestrict>>

\* Line 723: data->domid = dom; line 727: return 0.
restrict_set(t) ==
    /\ rpc[t] = "set"
    /\ domid' = rdom[t]
    /\ rret' = [rret EXCEPT ![t] = 0]
    /\ granted' = granted \cup {rdom[t]}
    /\ rpc' = [rpc EXCEPT ![t] = "done"]
    /\ rdom' = [rdom EXCEPT ![t] = 0]
    /\ UNCHANGED <<rq, exceptRestrict>>

\* Lines 724-727: else if (data->domid != dom) return -EINVAL; return 0.
restrict_cmp(t) ==
    /\ rpc[t] = "cmp"
    /\ IF domid # rdom[t]
       THEN /\ rret' = [rret EXCEPT ![t] = -EINVAL]
            /\ UNCHANGED granted
       ELSE /\ rret' = [rret EXCEPT ![t] = 0]
            /\ granted' = granted \cup {rdom[t]}
    /\ rpc' = [rpc EXCEPT ![t] = "done"]
    /\ rdom' = [rdom EXCEPT ![t] = 0]
    /\ UNCHANGED <<domid, rq, exceptRestrict>>

\* The restrict call returns to its thread.
restrict_return(t) ==
    /\ rpc[t] = "done"
    /\ rpc' = [rpc EXCEPT ![t] = "idle"]
    /\ rret' = [rret EXCEPT ![t] = 0]
    /\ UNCHANGED <<domid, rdom, granted, rq, exceptRestrict>>

\* "If restriction is in place, check the domid matches" (lines 278, 484,
\* 643, 745, 1060, 1443): may a request naming dom go on?
DomainAllowed_Always(bound, dom) == TRUE
DomainAllowed(bound, dom) == bound = DOMID_INVALID \/ bound = dom

\* What a handler does before its body: the error it returns, or 0 when the
\* request goes on to the body. bound is data->domid as the handler reads it;
\* hdr_ok: the copy_from_user of the request header succeeds; pre_ok: the
\* check the handler makes on the copied header before it compares the
\* domain passes (access_ok on m.arr / m.err, no unknown flag bits).
\* privcmd_ioctl_hypercall, lines 82-87.
hypercall_checks(bound, hdr_ok) ==
    IF bound # DOMID_INVALID THEN -EPERM
    ELSE IF ~hdr_ok THEN -EFAULT
    ELSE 0
\* privcmd_ioctl_mmap, lines 269-279.
mmap_checks(bound, dom, hdr_ok) ==
    IF auto_translated THEN -ENOSYS
    ELSE IF ~hdr_ok THEN -EFAULT
    ELSE IF ~DomainAllowed(bound, dom) THEN -EPERM
    ELSE 0
\* privcmd_ioctl_mmap_batch, lines 463-485 (both versions).
mmap_batch_checks(bound, dom, hdr_ok, pre_ok) ==
    IF ~hdr_ok THEN -EFAULT
    ELSE IF ~pre_ok THEN -EFAULT
    ELSE IF ~DomainAllowed(bound, dom) THEN -EPERM
    ELSE 0
\* privcmd_ioctl_dm_op, lines 639-644; privcmd_ioctl_mmap_resource, 741-746.
dm_op_checks(bound, dom, hdr_ok) ==
    IF ~hdr_ok THEN -EFAULT
    ELSE IF ~DomainAllowed(bound, dom) THEN -EPERM
    ELSE 0
\* privcmd_ioctl_irqfd, lines 1052-1061; privcmd_ioctl_ioeventfd, 1435-1444.
eventfd_checks(bound, dom, hdr_ok, pre_ok) ==
    IF ~hdr_ok THEN -EFAULT
    ELSE IF ~pre_ok THEN -EINVAL
    ELSE IF ~DomainAllowed(bound, dom) THEN -EPERM
    ELSE 0

RequestKinds == {"hypercall", "mmap", "mmap_batch", "dm_op", "mmap_resource",
                 "irqfd", "ioeventfd"}

\* privcmd_ioctl, lines 1495-1543: the handler's checks for a request.
ioctl_checks(kind, bound, dom, hdr_ok, pre_ok) ==
    CASE kind = "hypercall" -> hypercall_checks(bound, hdr_ok)
      [] kind = "mmap" -> mmap_checks(bound, dom, hdr_ok)
      [] kind = "mmap_batch" -> mmap_batch_checks(bound, dom, hdr_ok, pre_ok)
      [] kind \in {"dm_op", "mmap_resource"} -> dm_op_checks(bound, dom, hdr_ok)
      [] kind \in {"irqfd", "ioeventfd"} -> eventfd_checks(bound, dom, hdr_ok, pre_ok)

\* The results a handler's body can give once the checks let the request on.
BodyRets == {0, -EINVAL}

\* An ioctl other than restrict on the handle: rejected by its checks, or
\* passed on to its body (passed). Only the body calls the hypervisor and
\* changes regions, registries and page lists. rq.dom is the domain the
\* request names, 0 when the header never reached the kernel.
privcmd_ioctl(kind, dom, hdr_ok, pre_ok) ==
    /\ rq.kind = "none"
    /\ LET e == ioctl_checks(kind, domid, dom, hdr_ok, pre_ok)
           base == [kind |-> kind, dom |-> IF hdr_ok THEN dom ELSE 0]
       IN IF e # 0
          THEN rq' = base @@ [ret |-> e, passed |-> FALSE]
          ELSE \E r \in BodyRets : rq' = base @@ [ret |-> r, passed |-> TRUE]
    /\ UNCHANGED <<domid, rpc, rdom, rret, granted, exceptRestrict>>

\* The ioctl returns.
request_return ==
    /\ rq.kind # "none"
    /\ rq' = NoRequest
    /\ UNCHANGED <<domid, rpc, rdom, rret, granted, exceptRestrict>>

RestrictCopy == \E t \in Threads, dom \in Doms, ok \in BOOLEAN : restrict_copy(t, dom, ok)
RestrictTest == \E t \in Threads : restrict_test(t)
RestrictSet == \E t \in Threads : restrict_set(t)
RestrictCmp == \E t \in Threads : restrict_cmp(t)
RestrictReturn == \E t \in Threads : restrict_return(t)
Request ==
    \E kind \in RequestKinds, dom \in Doms, hdr_ok \in BOOLEAN, pre_ok \in BOOLEAN :
        /\ ~hdr_ok => (dom = 1 /\ pre_ok)
        /\ privcmd_ioctl(kind, dom, hdr_ok, pre_ok)

NextRestrict ==
    \/ RestrictCopy
    \/ RestrictTest
    \/ RestrictSet
    \/ RestrictCmp
    \/ RestrictReturn
    \/ Request
    \/ request_return

SpecRestrict == Init /\ [][NextRestrict]_vars

\* ============================================================= ioeventfd
\* One caller issues ioeventfd assign / deassign ioctls (ioreq_lock
\* serialises callers); ioeventfd_interrupt runs for any bound port at any
\* time. The ioreq slot is shared with the hypervisor, so its content when
\* the handler starts is an input of the handler.

\* Line 1153: offset of the queue-notify register; line 1094: vq mask.
VIRTIO_MMIO_QUEUE_NOTIFY == 80
QUEUE_NOTIFY_VQ_MASK == 65535
\* Line 1332: the vcpu limit.
VcpuLimit == 4096
\* The address and width callers register, and one near the top of the
\* address space.
FilterAddr == 16
FilterLen == 4
AssignAddrs == {FilterAddr, AddrSpace - 2}

\* ioeventfd->ports[vcpu] of the channel on buffer uioreq.
PortOf(uioreq, vcpu) == uioreq * 10 + vcpu
PortsOf(ch) == {PortOf(ch.uioreq, v) : v \in 0..(ch.vcpus - 1)}

TotalFilters == SumSeq([i \in DOMAIN ioreq_list |-> Len(ioreq_list[i].ioeventfds)])

\* privcmd_ioeventfd_assign, lines 1322-1333: the request's shape.
assign_validate(addr, addr_len, vcpus) ==
    IF (addr + addr_len) % AddrSpace < addr THEN -EINVAL
    ELSE IF ~(addr_len \in {1, 2, 4, 8}) THEN -EINVAL
    ELSE IF vcpus = 0 \/ vcpus > VcpuLimit THEN -EINVAL
    ELSE 0

\* get_ioreq, line 1280: the first channel on the request's buffer (0: none).
FindChannel(list, uioreq) ==
    IF \E i \in DOMAIN list : list[i].uioreq = uioreq
    THEN CHOOSE i \in DOMAIN list :
            /\ list[i].uioreq = uioreq
            /\ \A j \in 1..(i - 1) : list[j].uioreq # uioreq
    ELSE 0

\* get_ioreq, lines 1282-1283.
ConfigMismatch_Never(ch, dom, vcpus) == FALSE
ConfigMismatch(ch, dom, vcpus) == ch.dom # dom \/ ch.vcpus # vcpus

\* get_ioreq, lines 1292-1297: the eventfd is already on the channel.
HasEventfd_Never(ch, e) == FALSE
HasEventfd(ch, e) == \E i \in DOMAIN ch.ioeventfds : ch.ioeventfds[i].eventfd = e

\* alloc_ioreq, lines 1228-1229: pages[0] is read through a payload that is
\* no page array (NULL or PRIV_VMA_LOCKED).
PayloadIsPages(v) == v.vm_private_data.kind = "pages"

\* alloc_ioreq, lines 1196-1265. fail: "none", "kzalloc", "vma" (the buffer
\* address lies above every mapping of the caller: find_vma finds nothing,
\* as it does when no region ends above the address), "ports"
\* (memdup_array_user), "bind" (bind_evtchn_to_irqhandler_lateeoi; the ports
\* bound so far are unbound). wild: pages[0] was read through a payload that
\* is no page array.
alloc_ioreq(list, uioreq, dom, vcpus, fail) ==
    LET wild == ~PayloadIsPages(vma)
    IN IF fail = "kzalloc" THEN [err |-> -ENOMEM, list |-> list, wild |-> FALSE]
       ELSE IF fail = "vma" \/ ~FindVma(uioreq)
       THEN [err |-> -EFAULT, list |-> list, wild |-> FALSE]
       ELSE IF fail = "ports" THEN [err |-> -EFAULT, list |-> list, wild |-> wild]
       ELSE IF fail = "bind" THEN [err |-> -EINVAL, list |-> list, wild |-> wild]
       ELSE [err |-> 0,
             list |-> Append(list, [uioreq |-> uioreq, dom |-> dom, vcpus |-> vcpus,
                                    ioeventfds |-> <<>>]),
             wild |-> wild]

\* get_ioreq, lines 1267-1305.
get_ioreq(list, uioreq, dom, vcpus, e, fail) ==
    LET i == FindChannel(list, uioreq)
    IN IF i # 0
       THEN IF ConfigMismatch(list[i], dom, vcpus)
            THEN [err |-> -EINVAL, list |-> list, wild |-> FALSE]
            ELSE IF HasEventfd(list[i], e)
            THEN [err |-> -EBUSY, list |-> list, wild |-> FALSE]
            ELSE [err |-> 0, list |-> list, wild |-> FALSE]
       ELSE alloc_ioreq(list, uioreq, dom, vcpus, fail)

\* The call is over with result r.
IoDone(op, e, uioreq, dom, vcpus, valid, r) ==
    io' = [IoIdle EXCEPT !.pc = "done", !.op = op, !.eventfd = e, !.uioreq = uioreq,
                         !.dom = dom, !.vcpus = vcpus, !.valid = valid, !.ret = r]

\* privcmd_ioeventfd_assign, lines 1314-1363 and the error exits 1373-1378:
\* up to get_ioreq, which leaves ioreq_lock held when it succeeds.
\* fail: "none", "kzalloc_fd" (line 1335), "fdget" (1339), "not_eventfd"
\* (1345), or a failure of alloc_ioreq. When alloc_ioreq reads pages[0]
\* through a payload that is no page array, the kernel stops there (with
\* ioreq_lock and the address-space lock held) or goes on with what it read.
privcmd_ioeventfd_assign(e, uioreq, dom, vcpus, addr, addr_len, vq, fail) ==
    /\ io.pc = "idle"
    /\ irq.pc = "idle"
    /\ ~ioreq_lock
    /\ LET v == assign_validate(addr, addr_len, vcpus)
           g == get_ioreq(ioreq_list, uioreq, dom, vcpus, e, fail)
       IN IF v # 0
          THEN /\ IoDone("assign", e, uioreq, dom, vcpus, FALSE, v)
               /\ UNCHANGED <<ioreq_list, ioreq_lock>>
          ELSE IF fail \in {"kzalloc_fd", "fdget", "not_eventfd"}
          THEN /\ IoDone("assign", e, uioreq, dom, vcpus, FALSE,
                         IF fail = "kzalloc_fd" THEN -ENOMEM
                         ELSE IF fail = "fdget" THEN -EBADF ELSE -EINVAL)
               /\ UNCHANGED <<ioreq_list, ioreq_lock>>
          ELSE \/ /\ g.wild
                  /\ io' = [IoIdle EXCEPT !.pc = "BUG", !.op = "assign",
                                          !.eventfd = e, !.uioreq = uioreq,
                                          !.dom = dom, !.vcpus = vcpus,
                                          !.valid = TRUE, !.wild = TRUE]
                  /\ ioreq_lock' = TRUE
                  /\ UNCHANGED ioreq_list
               \/ /\ g.err # 0
                  /\ io' = [IoIdle EXCEPT !.pc = "done", !.op = "assign",
                                          !.eventfd = e, !.uioreq = uioreq,
                                          !.dom = dom, !.vcpus = vcpus,
                                          !.valid = TRUE, !.ret = g.err,
                                          !.wild = g.wild]
                  /\ UNCHANGED <<ioreq_list, ioreq_lock>>
               \/ /\ g.err = 0
                  /\ ioreq_list' = g.list
                  /\ ioreq_lock' = TRUE
                  /\ io' = [IoIdle EXCEPT !.pc = "assign_add", !.op = "assign",
                                          !.eventfd = e, !.uioreq = uioreq,
                                          !.dom = dom, !.vcpus = vcpus, !.vq = vq,
                                          !.valid = TRUE, !.wild = g.wild]
    /\ UNCHANGED <<irq, exceptIo>>

\* Lines 1365-1371: the filter joins the channel's list, the mutex is
\* released, the call returns 0.
assign_add ==
    /\ io.pc = "assign_add"
    /\ irq.pc = "idle"
    /\ LET i == FindChannel(ioreq_list, io.uioreq)
           f == [eventfd |-> io.eventfd, addr |-> FilterAddr,
                 addr_len |-> FilterLen, vq |-> io.vq]
       IN ioreq_list' = [ioreq_list EXCEPT ![i].ioeventfds = Append(@, f)]
    /\ ioreq_lock' = FALSE
    /\ io' = [io EXCEPT !.pc = "done", !.ret = 0, !.vq = 0]
    /\ UNCHANGED <<irq, exceptIo>>

\* privcmd_ioeventfd_deassign, line 1399-1402: the first channel with the
\* request's dom, buffer and vcpu count (0: none).
DeassignChannel(list, uioreq, dom, vcpus) ==
    LET hit(i) == list[i].dom = dom /\ list[i].uioreq = uioreq /\ list[i].vcpus = vcpus
    IN IF \E i \in DOMAIN list : hit(i)
       THEN CHOOSE i \in DOMAIN list : hit(i) /\ \A j \in 1..(i - 1) : ~hit(j)
       ELSE 0

\* ioeventfd_free, lines 1307-1312: the filter of eventfd e leaves the list.
ioeventfd_free(filters, e) == SelectSeq(filters, LAMBDA f : f.eventfd # e)

\* Line 1410: list_empty(&kioreq->ioeventfds).
ChannelIsEmpty_Never(ch) == FALSE
ChannelIsEmpty(ch) == ch.ioeventfds = <<>>

\* privcmd_ioeventfd_deassign, lines 1381-1410 and 1419-1427: up to the
\* removal of the filter. fail: "none" or "fdget" (line 1388).
privcmd_ioeventfd_deassign(e, uioreq, dom, vcpus, fail) ==
    /\ io.pc = "idle"
    /\ irq.pc = "idle"
    /\ ~ioreq_lock
    /\ LET i == DeassignChannel(ioreq_list, uioreq, dom, vcpus)
       IN IF fail = "fdget"
          THEN /\ IoDone("deassign", e, uioreq, dom, vcpus, FALSE, -EBADF)
               /\ UNCHANGED <<ioreq_list, ioreq_lock>>
          ELSE IF i = 0 \/ ~HasEventfd(ioreq_list[IF i = 0 THEN 1 ELSE i], e)
          THEN /\ IoDone("deassign", e, uioreq, dom, vcpus, TRUE, -ENODEV)
               /\ UNCHANGED <<ioreq_list, ioreq_lock>>
          ELSE LET list1 == [ioreq_list EXCEPT
                                ![i].ioeventfds = ioeventfd_free(@, e)]
               IN /\ ioreq_list' = list1
                  /\ IF ChannelIsEmpty(list1[i])
                     THEN /\ ioreq_lock' = TRUE
                          /\ io' = [IoIdle EXCEPT !.pc = "deassign_free",
                                       !.op = "deassign", !.eventfd = e,
                                       !.uioreq = uioreq, !.dom = dom,
                                       !.vcpus = vcpus, !.valid = TRUE]
                     ELSE /\ ioreq_lock' = FALSE
                          /\ IoDone("deassign", e, uioreq, dom, vcpus, TRUE, 0)
    /\ UNCHANGED <<irq, exceptIo>>

\* ioreq_free, lines 1180-1193, then lines 1412 and 1423-1427: the channel
\* leaves ioreq_list, its ports are unbound (unbind_from_irqhandler waits for
\* a running handler), the mutex is released, the call returns 0.
deassign_free ==
    /\ io.pc = "deassign_free"
    /\ irq.pc = "idle"
    /\ LET i == DeassignChannel(ioreq_list, io.uioreq, io.dom, io.vcpus)
       IN /\ ioreq_list' = SubSeq(ioreq_list, 1, i - 1)
                           \o SubSeq(ioreq_list, i + 1, Len(ioreq_list))
          /\ io' = [io EXCEPT !.pc = "done", !.ret = 0,
                              !.unbound = PortsOf(ioreq_list[i])]
    /\ ioreq_lock' = FALSE
    /\ UNCHANGED <<irq, exceptIo>>

\* The ioeventfd ioctl returns.
io_return ==
    /\ io.pc = "done"
    /\ io' = IoIdle
    /\ UNCHANGED <<ioreq_list, ioreq_lock, irq, exceptIo>>

\* ioeventfd_interrupt, lines 1135-1136: is the slot a guest write to serve?
Eligible_AnyDir(slot) == slot.state = "READY" /\ slot.type = "COPY"
Eligible(slot) == slot.state = "READY" /\ slot.type = "COPY" /\ slot.dir = "WRITE"

\* Lines 1153-1155: does filter f match the write in the slot?
FilterMatches_AnyVq(f, slot) ==
    /\ slot.addr = (f.addr + VIRTIO_MMIO_QUEUE_NOTIFY) % AddrSpace
    /\ slot.size = f.addr_len
FilterMatches(f, slot) ==
    /\ slot.addr = (f.addr + VIRTIO_MMIO_QUEUE_NOTIFY) % AddrSpace
    /\ slot.size = f.addr_len
    /\ slot.data % (QUEUE_NOTIFY_VQ_MASK + 1) = f.vq

\* Lines 1152-1160: the first filter of the list that matches (0: none).
FirstMatch(filters, slot) ==
    IF \E k \in DOMAIN filters : FilterMatches(filters[k], slot)
    THEN CHOOSE k \in DOMAIN filters :
            /\ FilterMatches(filters[k], slot)
            /\ \A j \in 1..(k - 1) : ~FilterMatches(filters[j], slot)
    ELSE 0

\* ioeventfd_interrupt, lines 1127-1178, for the port of vcpu on channel i,
\* with slot the content of kioreq->ioreq[vcpu] when the handler starts.
\* irq.ioreq is that content, irq.states lists the slot's state at the
\* start and after each write, irq.signals the eventfds signalled,
\* irq.notifies the ports notified.
ioeventfd_interrupt(i, vcpu, slot) ==
    /\ irq.pc = "idle"
    /\ io.pc # "done"
    /\ i \in DOMAIN ioreq_list
    /\ vcpu \in 0..(ioreq_list[i].vcpus - 1)
    /\ LET ch == ioreq_list[i]
           k == FirstMatch(ch.ioeventfds, slot)
           base == [IrqIdle EXCEPT !.pc = "done", !.uioreq = ch.uioreq, !.vcpu = vcpu,
                                   !.ioreq = slot]
       IN IF ~Eligible(slot)
          THEN irq' = [base EXCEPT !.states = <<slot.state>>, !.ret = "IRQ_NONE"]
          ELSE IF k = 0
          THEN irq' = [base EXCEPT !.states = <<slot.state, "INPROCESS", "READY">>,
                          !.ret = "IRQ_NONE"]
          ELSE irq' = [base EXCEPT
                          !.states = <<slot.state, "INPROCESS", "RESP_READY">>,
                          !.signals = <<ch.ioeventfds[k].eventfd>>,
                          !.notifies = <<PortOf(ch.uioreq, vcpu)>>,
                          !.ret = "IRQ_HANDLED"]
    /\ UNCHANGED <<ioreq_list, ioreq_lock, io, exceptIo>>

\* The handler has returned.
irq_return ==
    /\ irq.pc = "done"
    /\ irq' = IrqIdle
    /\ UNCHANGED <<ioreq_list, ioreq_lock, io, exceptIo>>

\* The slot contents the handler is given: a guest write to the queue-notify
\* register of FilterAddr, and that write with one field changed.
NotifyWrite(data) ==
    [state |-> "READY", type |-> "COPY", dir |-> "WRITE",
     addr |-> FilterAddr + VIRTIO_MMIO_QUEUE_NOTIFY, size |-> FilterLen, data |-> data]
IrqSlots ==
    {NotifyWrite(d) : d \in Vqs \cup {QUEUE_NOTIFY_VQ_MASK + 2}}
    \cup {[NotifyWrite(1) EXCEPT !.state = "RESP_READY"]}
    \cup {[NotifyWrite(1) EXCEPT !.type = "PIO"], [NotifyWrite(1) EXCEPT !.dir = "READ"],
          [NotifyWrite(1) EXCEPT !.addr = FilterAddr], [NotifyWrite(1) EXCEPT !.size = 8]}

\* The (dom, vcpus) pairs callers name, and the failures a call can be given.
IoConfigs == {<<1, 1>>, <<2, 1>>, <<1, 2>>}
AssignFails == {"kzalloc_fd", "fdget", "not_eventfd", "kzalloc", "vma", "ports", "bind"}

\* Well-formed assign requests.
IoAssign ==
    \E e \in Eventfds, uioreq \in Bufs, c \in IoConfigs, vq \in Vqs :
        /\ TotalFilters < MaxFilters
        /\ privcmd_ioeventfd_assign(e, uioreq, c[1], c[2], FilterAddr, FilterLen, vq, "none")

\* An assign request that meets an allocation, descriptor, lookup, copy or
\* binding failure.
IoAssignFails ==
    \E uioreq \in Bufs, fail \in AssignFails :
        /\ TotalFilters < MaxFilters
        /\ privcmd_ioeventfd_assign(1, uioreq, 1, 1, FilterAddr, FilterLen, 1, fail)

\* Malformed assign requests: range overflow, bad width, bad vcpu count.
IoAssignMalformed ==
    \E addr \in AssignAddrs, addr_len \in {FilterLen, 3}, vcpus \in {0, 1, VcpuLimit + 1} :
        /\ assign_validate(addr, addr_len, vcpus) # 0
        /\ privcmd_ioeventfd_assign(1, 1, 1, vcpus, addr, addr_len, 1, "none")

IoDeassign ==
    \E e \in Eventfds, uioreq \in Bufs, c \in IoConfigs :
        privcmd_ioeventfd_deassign(e, uioreq, c[1], c[2], "none")

\* A deassign request whose descriptor is not open.
IoDeassignBadFd == privcmd_ioeventfd_deassign(1, 1, 1, 1, "fdget")

Interrupt ==
    \E i \in DOMAIN ioreq_list, vcpu \in 0..1, slot \in IrqSlots :
        ioeventfd_interrupt(i, vcpu, slot)

NextIoeventfd ==
    \/ IoAssign
    \/ IoAssignFails
    \/ IoAssignMalformed
    \/ assign_add
    \/ IoDeassign
    \/ IoDeassignBadFd
    \/ deassign_free
    \/ io_return
    \/ Interrupt
    \/ irq_return

\* The ioreq buffer is found through the page array of its mapping
\* (lines 1228-1229), which auto-translated guests have: the device model
\* has mapped the ioreq server's pages (mmap and IOCTL_PRIVCMD_MMAP_RESOURCE)
\* before it registers ioeventfds.
IoreqRegion == [exists |-> TRUE, vm_start |-> VmStart, vm_end |-> VmStart + MaxNum,
                vm_private_data |-> PrivPages(MaxNum)]

InitIoeventfd ==
    /\ InitCalls
    /\ auto_translated = TRUE
    /\ vma = IoreqRegion

SpecIoeventfd == InitIoeventfd /\ [][NextIoeventfd]_vars

\* One caller maps a region, or not, asks for a resource in it, or not, and
\* then registers ioeventfds on buffers at the first pages of the address
\* space, one call at a time, on either kind of guest.
IoreqMmapRegion ==
    /\ io.pc = "idle" /\ ioreq_list = <<>>
    /\ MmapRegion

\* The request covers the region and every frame is mapped.
IoreqMmapResource ==
    /\ io.pc = "idle" /\ ioreq_list = <<>>
    /\ vma.exists
    /\ UNCHANGED auxVars
    /\ LET num == vma_pages(vma)
       IN privcmd_ioctl_mmap_resource(vma.vm_start, num, "none",
                                      [i \in 1..num |-> 0], num)

IoreqAssign ==
    /\ pc = "idle"
    /\ IoAssign

IoreqAssignFails ==
    /\ pc = "idle"
    /\ IoAssignFails

NextIoreq ==
    \/ IoreqMmapRegion
    \/ IoreqMmapResource
    \/ ioctl_return
    \/ IoreqAssign
    \/ IoreqAssignFails
    \/ assign_add
    \/ io_return

SpecIoreq == Init /\ [][NextIoreq]_vars

\* ================================================================= irqfd
\* One caller issues irqfd assign ioctls, another irqfd deassign ioctls; the
\* eventfds are signalled and closed by their owners; the cleanup workqueue
\* runs irqfd_shutdown for the work items queued on it.

\* The registration on irqfds_list whose eventfd is e (0: none); lines
\* 977-983 and 1026-1031.
Listed_Never(list, regs, e) == 0
Listed(list, regs, e) ==
    IF \E k \in DOMAIN list : regs[list[k]].eventfd = e
    THEN list[CHOOSE k \in DOMAIN list :
                 /\ regs[list[k]].eventfd = e
                 /\ \A j \in 1..(k - 1) : regs[list[j]].eventfd # e]
    ELSE 0

\* irqfd_deactivate, lines 863-869, for each registration in rs: list_del_init
\* and queue_work, which queues the work item unless it is already pending.
DelInit_Keep(list, rs) == list
DelInit(list, rs) == SelectSeq(list, LAMBDA x : ~(x \in rs))
QueueWork(regs, rs) == [r \in Regs |-> IF r \in rs THEN [regs[r] EXCEPT !.pending = TRUE]
                                       ELSE regs[r]]

\* The kernel runs, and no call or handler is at its return: the steps below
\* that only clear the record of a finished call or of the last injection
\* come first.
Live == ~oops
Running == Live /\ asg.pc # "done" /\ dea.pc # "done" /\ injected = {}

\* The wait-queue entries on eventfd e.
Waiters(e) == {r \in Regs : kirqfds[r].waiting /\ kirqfds[r].eventfd = e}

\* privcmd_irqfd_assign, lines 932-986 and the error exits 1003-1011: up to
\* the release of irqfds_lock. fail: "none", "kzalloc" (line 941), "copy"
\* (946), "not_eventfd" (962).
privcmd_irqfd_assign(e, fail) ==
    /\ Running
    /\ asg.pc = "idle"
    /\ ~(dea.pc \in {"exit", "exited"})
    /\ LET done(valid, r) == asg' = [AsgIdle EXCEPT !.pc = "done", !.eventfd = e,
                                                    !.valid = valid, !.ret = r]
           dup == Listed(irqfds_list, kirqfds, e)
       IN IF fail # "none" \/ ~efd[e].open
          THEN /\ done(FALSE, IF fail = "kzalloc" THEN -ENOMEM
                              ELSE IF fail = "copy" THEN -EFAULT
                              ELSE IF ~efd[e].open THEN -EBADF ELSE -EINVAL)
               /\ UNCHANGED <<kirqfds, irqfds_list>>
          ELSE IF dup # 0
          THEN /\ done(TRUE, -EBUSY)
               /\ UNCHANGED <<kirqfds, irqfds_list>>
          ELSE /\ \E r \in Regs : kirqfds[r].eventfd = 0
               /\ LET r == CHOOSE x \in Regs :
                              /\ kirqfds[x].eventfd = 0
                              /\ \A y \in 1..(x - 1) : kirqfds[y].eventfd # 0
                  IN /\ kirqfds' = [kirqfds EXCEPT ![r] = [NoKirqfd EXCEPT !.eventfd = e]]
                     /\ irqfds_list' = Append(irqfds_list, r)
                     /\ asg' = [AsgIdle EXCEPT !.pc = "poll", !.eventfd = e,
                                               !.reg = r, !.valid = TRUE]
    /\ injected' = {}
    /\ UNCHANGED <<efd, dea, drained, oops, exceptIq>>

\* Lines 992-993: vfs_poll reports EPOLLIN when the eventfd's counter is
\* not zero.
PollIn_Never(cnt) == FALSE
PollIn(cnt) == cnt > 0

\* privcmd_irqfd_assign, lines 992-1001: vfs_poll puts the wait entry on the
\* eventfd (irqfd_poll_func), a pending event is injected, the file is
\* dropped, the call returns 0. When the registration was freed meanwhile
\* this uses freed memory: the kernel stops (stop), or the memory is still
\* intact and the call goes on.
irqfd_assign_poll(stop) ==
    /\ Running
    /\ asg.pc = "poll"
    /\ stop => kirqfds[asg.reg].freed
    /\ IF stop
       THEN /\ oops' = TRUE
            /\ injected' = {}
            /\ UNCHANGED <<kirqfds, efd, asg>>
       ELSE /\ kirqfds' = [kirqfds EXCEPT ![asg.reg].waiting = TRUE]
            /\ efd' = [efd EXCEPT ![asg.eventfd].cnt = 0]
            /\ injected' = IF PollIn(efd[asg.eventfd].cnt) THEN {asg.reg} ELSE {}
            /\ asg' = [asg EXCEPT !.pc = "done", !.ret = 0]
            /\ oops' = oops
    /\ UNCHANGED <<irqfds_list, dea, drained, exceptIq>>

\* The assign ioctl returns.
irqfd_assign_return ==
    /\ Live
    /\ asg.pc = "done"
    /\ asg' = AsgIdle
    /\ injected' = {}
    /\ UNCHANGED <<kirqfds, irqfds_list, efd, dea, drained, oops, exceptIq>>

\* privcmd_irqfd_deassign, lines 1020-1022: eventfd_ctx_fdget. dea.target is
\* the registration on the list for e as the call starts, dea.racing tells
\* that its assign call has not returned yet.
privcmd_irqfd_deassign(e) ==
    /\ Running
    /\ dea.pc = "idle"
    /\ LET t == Listed(irqfds_list, kirqfds, e)
       IN IF ~efd[e].open
          THEN dea' = [DeaIdle EXCEPT !.pc = "done", !.eventfd = e, !.ret = -EBADF]
          ELSE dea' = [DeaIdle EXCEPT !.pc = "lookup", !.eventfd = e, !.target = t,
                                      !.racing = (t # 0 /\ asg.reg = t)]
    /\ injected' = {}
    /\ UNCHANGED <<kirqfds, irqfds_list, efd, asg, drained, oops, exceptIq>>

\* Lines 1024-1035: the registration of the eventfd, if one is on the list,
\* is deactivated.
irqfd_deassign_lookup ==
    /\ Running
    /\ dea.pc = "lookup"
    /\ LET r == Listed(irqfds_list, kirqfds, dea.eventfd)
           rs == IF r = 0 THEN {} ELSE {r}
       IN /\ irqfds_list' = DelInit(irqfds_list, rs)
          /\ kirqfds' = QueueWork(kirqfds, rs)
    /\ dea' = [dea EXCEPT !.pc = "flush"]
    /\ injected' = {}
    /\ UNCHANGED <<efd, asg, drained, oops, exceptIq>>

\* Line 1042, flush_workqueue begins: it will wait for the work items that
\* are queued or running now. dea.need[r] is the number of irqfd_shutdown
\* runs of r it waits for.
irqfd_deassign_flush ==
    /\ Running
    /\ dea.pc = "flush"
    /\ dea' = [dea EXCEPT !.pc = "wait",
                  !.need = [r \in Regs |-> IF kirqfds[r].pending \/ kirqfds[r].running
                                           THEN kirqfds[r].runs
                                                + (IF kirqfds[r].pending THEN 1 ELSE 0)
                                                + (IF kirqfds[r].running THEN 1 ELSE 0)
                                           ELSE 0]]
    /\ injected' = {}
    /\ UNCHANGED <<kirqfds, irqfds_list, efd, asg, drained, oops, exceptIq>>

\* flush_workqueue returns when the work it waits for has run.
FlushDone_NoWait(need) == TRUE
FlushDone(need) == \A r \in Regs : kirqfds[r].runs >= need[r]

\* The result of a deassign whose eventfd is valid (line 1044); found tells
\* whether a registration was on the list when the call started.
DeassignResult_NoDevice(found) == IF found THEN 0 ELSE -ENODEV
DeassignResult(found) == 0

\* Lines 1042-1044: flush_workqueue returns, the call returns.
irqfd_deassign_flushed ==
    /\ Running
    /\ dea.pc = "wait"
    /\ FlushDone(dea.need)
    /\ dea' = [dea EXCEPT !.pc = "done", !.ret = DeassignResult(dea.target # 0),
                          !.need = DeaIdle.need]
    /\ drained' = IF dea.target # 0 /\ ~dea.racing THEN drained \cup {dea.target}
                  ELSE drained
    /\ injected' = {}
    /\ UNCHANGED <<kirqfds, irqfds_list, efd, asg, oops, exceptIq>>

\* The deassign ioctl returns.
irqfd_deassign_return ==
    /\ Live
    /\ dea.pc = "done"
    /\ dea' = DeaIdle
    /\ injected' = {}
    /\ UNCHANGED <<kirqfds, irqfds_list, efd, asg, drained, oops, exceptIq>>

\* The eventfd is signalled: irqfd_wakeup with EPOLLIN (lines 909-910) runs
\* irqfd_inject, which reads the counter (line 887), for every wait entry on
\* it; with no wait entry the counter stays raised.
eventfd_signal(e) ==
    /\ Running
    /\ efd[e].open
    /\ efd' = [efd EXCEPT ![e].cnt = IF Waiters(e) = {} THEN 1 ELSE 0]
    /\ injected' = Waiters(e)
    /\ UNCHANGED <<kirqfds, irqfds_list, asg, dea, drained, oops, exceptIq>>

\* The last reference to the eventfd's file goes away (the assign call holds
\* one from line 956 to line 1000): irqfd_wakeup with EPOLLHUP (lines
\* 912-918) deactivates every registration that has a wait entry on it.
eventfd_release(e) ==
    /\ Running
    /\ efd[e].open
    /\ ~(asg.pc = "poll" /\ asg.eventfd = e)
    /\ efd' = [efd EXCEPT ![e].open = FALSE]
    /\ irqfds_list' = DelInit(irqfds_list, Waiters(e))
    /\ kirqfds' = QueueWork(kirqfds, Waiters(e))
    /\ injected' = {}
    /\ UNCHANGED <<asg, dea, drained, oops, exceptIq>>

\* A worker takes the work item of r off the queue: its pending bit is
\* cleared and irqfd_shutdown is about to run.
work_start(r) ==
    /\ Running
    /\ kirqfds[r].pending
    /\ ~kirqfds[r].running
    /\ kirqfds' = [kirqfds EXCEPT ![r].pending = FALSE, ![r].running = TRUE]
    /\ injected' = {}
    /\ UNCHANGED <<irqfds_list, efd, asg, dea, drained, oops, exceptIq>>

\* irqfd_shutdown, lines 871-880: the wait entry leaves the eventfd, the
\* registration is freed. A second run works on freed memory: the kernel
\* stops (stop), or the memory is still intact and the run has no effect.
irqfd_shutdown(r, stop) ==
    /\ Running
    /\ kirqfds[r].running
    /\ kirqfds[r].runs < 2
    /\ stop => kirqfds[r].freed
    /\ IF stop
       THEN /\ oops' = TRUE
            /\ UNCHANGED kirqfds
       ELSE /\ kirqfds' = [kirqfds EXCEPT ![r].waiting = FALSE, ![r].freed = TRUE,
                                          ![r].running = FALSE, ![r].runs = @ + 1]
            /\ oops' = oops
    /\ injected' = {}
    /\ UNCHANGED <<irqfds_list, efd, asg, dea, drained, exceptIq>>

\* irqfd_inject has returned.
irqfd_inject_return ==
    /\ Live
    /\ injected # {}
    /\ asg.pc # "done"
    /\ injected' = {}
    /\ UNCHANGED <<kirqfds, irqfds_list, efd, asg, dea, drained, oops, exceptIq>>

\* privcmd_irqfd_exit, lines 1078-1088, at module unload (no handle is open,
\* so no ioctl is in progress): every registration on the list is
\* deactivated.
privcmd_irqfd_exit ==
    /\ Running
    /\ asg.pc = "idle"
    /\ dea.pc = "idle"
    /\ irqfds_list' = <<>>
    /\ kirqfds' = QueueWork(kirqfds, {irqfds_list[k] : k \in DOMAIN irqfds_list})
    /\ dea' = [DeaIdle EXCEPT !.pc = "exit"]
    /\ injected' = {}
    /\ UNCHANGED <<efd, asg, drained, oops, exceptIq>>

\* Line 1090: destroy_workqueue returns once no work is queued or running.
irqfd_exit_destroyed ==
    /\ Running
    /\ dea.pc = "exit"
    /\ \A r \in Regs : ~kirqfds[r].pending /\ ~kirqfds[r].running
    /\ dea' = [dea EXCEPT !.pc = "exited"]
    /\ injected' = {}
    /\ UNCHANGED <<kirqfds, irqfds_list, efd, asg, drained, oops, exceptIq>>

AssignCall == \E e \in Eventfds : privcmd_irqfd_assign(e, "none")
AssignCallFails == \E fail \in {"kzalloc", "copy", "not_eventfd"} :
                       privcmd_irqfd_assign(1, fail)
AssignPoll == \E stop \in BOOLEAN : irqfd_assign_poll(stop)
DeassignCall == \E e \in Eventfds : privcmd_irqfd_deassign(e)
Signal == \E e \in Eventfds : eventfd_signal(e)
Release == \E e \in Eventfds : eventfd_release(e)
WorkStart == \E r \in Regs : work_start(r)
Shutdown == \E r \in Regs, stop \in BOOLEAN : irqfd_shutdown(r, stop)

NextIrqfd ==
    \/ AssignCall
    \/ AssignCallFails
    \/ AssignPoll
    \/ irqfd_assign_return
    \/ DeassignCall
    \/ irqfd_deassign_lookup
    \/ irqfd_deassign_flush
    \/ irqfd_deassign_flushed
    \/ irqfd_deassign_return
    \/ privcmd_irqfd_exit
    \/ irqfd_exit_destroyed
    \/ irqfd_inject_return
    \/ Signal
    \/ Release
    \/ WorkStart
    \/ Shutdown

SpecIrqfd == InitIoeventfd /\ [][NextIrqfd]_vars

\* ------------------------------------------------ the address-space lock
\* Two threads call privcmd_ioctl_mmap_batch, privcmd_ioctl_mmap and
\* privcmd_ioctl_mmap_resource on the region at VmStart. A call names the
\* first page of the region and one page or as many pages as the region has.
\* fail: "early" (the call returns before it takes the lock), "alloc"
\* (alloc_empty_pages or kcalloc fails), "remap" (the remap maps nothing).
LockOps == {"mmap_batch", "mmap", "mmap_resource"}
LockFails == {"none", "early", "alloc", "remap"}

\* A BUG_ON stopped the kernel.
NoBug == \A t \in Threads : lk[t].pc # "BUG"

\* mmap_write_lock can be taken.
LockFree_Always(l) == TRUE
LockFree(l) == l = 0

\* The part of a call before mmap_write_lock (lines 259-285, 463-506,
\* 741-762): it returns at once (-ENOSYS from privcmd_ioctl_mmap with
\* auto-translation, -EFAULT from a failed copy) or goes on to take the lock.
lock_call(t) ==
    /\ NoBug /\ lk[t].pc = "idle"
    /\ \E op \in LockOps, fail \in LockFails :
       \E num \in {1} \cup (IF vma.exists THEN {vma_pages(vma)} ELSE {}) :
          /\ fail = "alloc" => op # "mmap"
          /\ fail = "early" => num = 1
          /\ lk' = [lk EXCEPT ![t] =
                       IF op = "mmap" /\ auto_translated
                       THEN [LkIdle EXCEPT !.pc = "returned", !.ret = -ENOSYS]
                       ELSE IF fail = "early"
                       THEN [LkIdle EXCEPT !.pc = "returned", !.ret = -EFAULT]
                       ELSE [LkIdle EXCEPT !.pc = "lock", !.op = op, !.num = num,
                                           !.fail = fail]]
    /\ UNCHANGED <<mmap_lock, vma, pte, lockFrame>>

\* mmap_write_lock(mm), lines 287, 508, 764.
mmap_write_lock(t) ==
    /\ NoBug /\ lk[t].pc = "lock"
    /\ LockFree(mmap_lock)
    /\ mmap_lock' = t
    /\ lk' = [lk EXCEPT ![t].pc = "lookup"]
    /\ UNCHANGED <<vma, pte, lockFrame>>

\* The region lookup: find_vma(mm, addr) with the vm_ops test (lines 510-515,
\* 766-770), vma_lookup(mm, msg->va) (lines 294-297).
lock_lookup(t) ==
    /\ NoBug /\ lk[t].pc = "lookup"
    /\ LET found == IF lk[t].op = "mmap" THEN VmaLookup(VmStart) ELSE FindVma(VmStart)
       IN lk' = [lk EXCEPT ![t].pc = IF found THEN "attach" ELSE "unlock",
                           ![t].ret = IF found THEN 0 ELSE -EINVAL]
    /\ UNCHANGED <<mmap_lock, vma, pte, lockFrame>>

\* The outcome of the payload check / attach of a call c on the region:
\* [ret, vma, attached, bug]. Lines 528-550 (batch), 297-299 (mmap), 772-797
\* (mmap_resource).
lock_attach_result(c) ==
    LET priv == vma.vm_private_data
        nr_pages == DIV_ROUND_UP(c.num, XEN_PFN_PER_PAGE)
        stay(err) == [ret |-> err, vma |-> vma, attached |-> FALSE, bug |-> FALSE]
        set(p) == [ret |-> 0, vma |-> [vma EXCEPT !.vm_private_data = p],
                   attached |-> priv = PrivNull, bug |-> FALSE]
    IN IF c.op = "mmap_batch" THEN
          IF priv = PrivNull THEN
             IF VmStart # vma.vm_start \/ VmStart + nr_pages # vma.vm_end
             THEN stay(-EINVAL)
             ELSE IF auto_translated
             THEN IF c.fail = "alloc" THEN stay(-ENOMEM)
                  ELSE set(alloc_empty_pages(vma, nr_pages).vm_private_data)
             ELSE set(PRIV_VMA_LOCKED)
          ELSE IF VmStart < vma.vm_start \/ VmStart + nr_pages > vma.vm_end
               THEN stay(-EINVAL)
               ELSE IF privcmd_vma_range_is_mapped(VmStart, nr_pages)
               THEN stay(-EINVAL)
               ELSE stay(0)
       ELSE IF c.op = "mmap" THEN
          IF VmStart # vma.vm_start \/ priv # PrivNull THEN stay(-EINVAL)
          ELSE set(MmapPayload(vma, 0).vm_private_data)
       ELSE \* mmap_resource
          IF c.fail = "alloc" THEN stay(-ENOMEM)
          ELSE IF ResourceUsesPlaceholders
          THEN IF priv # PrivNull
               THEN [stay(0) EXCEPT !.bug = TRUE]
               ELSE set(alloc_empty_pages(vma, nr_pages).vm_private_data)
          ELSE set(PRIV_VMA_LOCKED)

lock_attach(t) ==
    /\ NoBug /\ lk[t].pc = "attach"
    /\ LET a == lock_attach_result(lk[t])
       IN /\ vma' = a.vma
          /\ lk' = [lk EXCEPT ![t].pc = IF a.bug THEN "BUG"
                                        ELSE IF a.ret # 0 THEN "unlock" ELSE "remap",
                              ![t].ret = a.ret,
                              ![t].attached = a.attached]
    /\ UNCHANGED <<mmap_lock, pte, lockFrame>>

\* The remapping done under the lock: the first pass of the batch call (line
\* 561; its result is not the call's), traverse_pages with mmap_gfn_range
\* (line 306), the acquire hypercall and the remap of mmap_resource (lines
\* 804-837). A range that runs past the end of the region is refused.
lock_remap(t) ==
    /\ NoBug /\ lk[t].pc = "remap"
    /\ LET c == lk[t]
           refused == c.fail = "remap" \/ VmStart + c.num > vma.vm_end
           range == VmStart..(VmStart + c.num - 1)
       IN /\ pte' = [p \in Pages |-> pte[p] \/ (~refused /\ p \in range)]
          /\ lk' = [lk EXCEPT ![t].pc = "unlock",
                              ![t].ret = IF refused /\ c.op # "mmap_batch"
                                         THEN -EINVAL ELSE 0]
    /\ UNCHANGED <<mmap_lock, vma, lockFrame>>

\* mmap_write_unlock(mm), lines 312, 564, 585, 840; what the call does after
\* it (the second pass, freeing its lists) does not touch the region.
mmap_write_unlock(t) ==
    /\ NoBug /\ lk[t].pc = "unlock"
    /\ mmap_lock' = 0
    /\ lk' = [lk EXCEPT ![t] = [LkIdle EXCEPT !.pc = "returned", !.op = lk[t].op,
                                              !.ret = lk[t].ret,
                                              !.attached = lk[t].attached]]
    /\ UNCHANGED <<vma, pte, lockFrame>>

\* The call returns to its caller.
lock_return(t) ==
    /\ NoBug /\ lk[t].pc = "returned"
    /\ lk' = [lk EXCEPT ![t] = LkIdle]
    /\ UNCHANGED <<mmap_lock, vma, pte, lockFrame>>

LockCall == \E t \in Threads : lock_call(t)
LockAcquire == \E t \in Threads : mmap_write_lock(t)
LockLookup == \E t \in Threads : lock_lookup(t)
LockAttach == \E t \in Threads : lock_attach(t)
LockRemap == \E t \in Threads : lock_remap(t)
LockRelease == \E t \in Threads : mmap_write_unlock(t)
LockReturn == \E t \in Threads : lock_return(t)

\* mmap() of the region takes the lock itself: it runs while nobody holds it.
LockMmapRegion ==
    /\ mmap_lock = 0 /\ NoBug
    /\ MmapRegion

NextLock ==
    \/ LockMmapRegion
    \/ LockCall
    \/ LockAcquire
    \/ LockLookup
    \/ LockAttach
    \/ LockRemap
    \/ LockRelease
    \/ LockReturn

SpecLock == Init /\ [][NextLock]_vars

\* ------------------------------------------- gather_array / traverse_pages
\* A run gathers the user array 1, 2, ..., n of elements of `size` bytes and
\* walks the list with traverse_pages and with traverse_pages_block. The
\* callback returns sret at its stop-th call (stop = 0: it always returns 0).
MaxElems == 2 * MaxNum
CallbackRets == {-EFAULT, 1}

\* The element at byte offset off of page p of the list (0: the walk is off
\* the list or past the elements gather_array copied into the page).
ElemAt(pages, p, off, size) ==
    IF p \in DOMAIN pages /\ off % size = 0 /\ (off \div size) + 1 \in DOMAIN pages[p]
    THEN pages[p][(off \div size) + 1] ELSE 0

\* traverse_pages, line 175: does the walk move to the next page?
NextPage_WhenFull(pageidx, size) == pageidx >= PAGE_SIZE
NextPage(pageidx, size) == pageidx > PAGE_SIZE - size

\* traverse_pages, lines 174-187: the loop with nelemIn elements left, at
\* byte pageidx of page posIn; calls are the callback's calls so far.
RECURSIVE traverse_pages_loop(_, _, _, _, _, _, _, _)
traverse_pages_loop(pages, nelemIn, size, pageidx, posIn, calls, stop, sret) ==
    IF nelemIn = 0 THEN [ret |-> 0, calls |-> calls]
    ELSE LET next == NextPage(pageidx, size)
             pos1 == IF next THEN posIn + 1 ELSE posIn
             idx1 == IF next THEN 0 ELSE pageidx
             calls1 == Append(calls, [page |-> pos1, off |-> idx1,
                                      elem |-> ElemAt(pages, pos1, idx1, size)])
             r == IF Len(calls1) = stop THEN sret ELSE 0
         IN IF r # 0 THEN [ret |-> r, calls |-> calls1]
            ELSE traverse_pages_loop(pages, nelemIn - 1, size, idx1 + size, pos1,
                                     calls1, stop, sret)

\* traverse_pages, lines 160-190.
traverse_pages(nelemIn, size, pages, stop, sret) ==
    traverse_pages_loop(pages, nelemIn, size, PAGE_SIZE, 0, <<>>, stop, sret)

\* traverse_pages_block, lines 206-218: the loop with nelemIn elements left
\* after page posIn; a call gets a page and the count nr of its elements.
RECURSIVE traverse_pages_block_loop(_, _, _, _, _, _, _)
traverse_pages_block_loop(pages, nelemIn, size, posIn, blocks, stop, sret) ==
    IF nelemIn = 0 THEN [ret |-> 0, blocks |-> blocks]
    ELSE LET nr == BlockNr(nelemIn, size)
             pos1 == posIn + 1
             blocks1 == Append(blocks,
                           [page |-> pos1, nr |-> nr,
                            elems |-> [i \in 1..nr |->
                                         ElemAt(pages, pos1, (i - 1) * size, size)]])
             r == IF Len(blocks1) = stop THEN sret ELSE 0
         IN IF r # 0 THEN [ret |-> r, blocks |-> blocks1]
            ELSE traverse_pages_block_loop(pages, nelemIn - nr, size, pos1, blocks1,
                                           stop, sret)

\* traverse_pages_block, lines 196-221.
traverse_pages_block(nelemIn, size, pages, stop, sret) ==
    traverse_pages_block_loop(pages, nelemIn, size, 0, <<>>, stop, sret)

\* A caller gathers n elements of `size` bytes (gather_array succeeds).
gather_run ==
    /\ tv.pc = "idle"
    /\ \E n \in 0..MaxElems, size \in 1..PAGE_SIZE, stop \in 0..MaxElems,
          sret \in CallbackRets :
          /\ stop <= n
          /\ stop = 0 => sret = 1
          /\ tv' = [TvIdle EXCEPT
                       !.pc = "gathered", !.n = n, !.size = size, !.stop = stop,
                       !.sret = sret,
                       !.pages = gather_array(n, size, [i \in 1..n |-> i], 0, 0).pages]
    /\ UNCHANGED exceptTrav

\* It walks the list element by element.
traverse_run ==
    /\ tv.pc = "gathered"
    /\ LET w == traverse_pages(tv.n, tv.size, tv.pages, tv.stop, tv.sret)
       IN tv' = [tv EXCEPT !.pc = "traversed", !.calls = w.calls, !.ret = w.ret]
    /\ UNCHANGED exceptTrav

\* It walks the list page by page.
traverse_block_run ==
    /\ tv.pc = "traversed"
    /\ LET w == traverse_pages_block(tv.n, tv.size, tv.pages, tv.stop, tv.sret)
       IN tv' = [tv EXCEPT !.pc = "blocked", !.blocks = w.blocks, !.bret = w.ret]
    /\ UNCHANGED exceptTrav

\* free_page_list: the run is over.
traverse_return ==
    /\ tv.pc = "blocked"
    /\ tv' = [TvIdle EXCEPT !.pages = free_page_list(tv.pages).list]
    /\ UNCHANGED exceptTrav

NextTraverse ==
    \/ gather_run
    \/ traverse_run
    \/ traverse_block_run
    \/ traverse_return

SpecTraverse == Init /\ [][NextTraverse]_vars

\* ------------------------------------------------------------ properties
\* Abbreviations over the history of the batch call in progress or just done.
BatchRan == last_op = "mmap_batch" /\ hist.pass1
NumBlocks == Len(hist.block_nr)
Shortfall(k) == hist.block_ret[k] # hist.block_nr[k]
PagedBlock(k) == hist.block_ret[k] = -ENOENT
GenericBlock(k) == Shortfall(k) /\ ~PagedBlock(k)
AllBlocksMapped == \A k \in 1..NumBlocks : ~Shortfall(k)
Pass1Over == BatchRan /\ pc \in {"pass2", "done"}
SumTo(s, k) == SumSeq(SubSeq(s, 1, k))

\* C1: a batch call (V1 or V2) that passed validation and whose every block
\* remap reported all its entries mapped returns 0, never enters the second
\* pass, and leaves the caller's frame array as it was passed in.
C1_AllMappedNoSecondPass ==
    (Pass1Over /\ AllBlocksMapped) =>
        /\ pc = "done"
        /\ ret = 0
        /\ hist.pass2_blocks = 0
        /\ user_arr = InputArr(m.nib, m.num)

C1_Witness ==
    /\ Pass1Over /\ AllBlocksMapped /\ pc = "done"
    /\ NumBlocks = 2 /\ m.num = MaxNum /\ ret = 0

\* C2 as claimed: after the first pass the call returns -ENOENT when the
\* global error ended as -ENOENT and no fault hit the second pass, 0 when no
\* block reported a shortfall, and a non-zero error when the global error
\* ended as Generic.
C2_Original ==
    (BatchRan /\ pc = "done") =>
        /\ (st.global_error = -ENOENT /\ ~hist.fault) => ret = -ENOENT
        /\ AllBlocksMapped => ret = 0
        /\ st.global_error = 1 => ret # 0

\* C2 (amended): after the first pass the call returns -EFAULT when the
\* second pass hit a user-memory fault; otherwise -ENOENT when the global
\* error ended as -ENOENT, and 0 both when no block reported a shortfall and
\* when the global error ended as Generic.
C2_FinalReturn ==
    (BatchRan /\ pc = "done") =>
        /\ hist.fault => ret = -EFAULT
        /\ (st.global_error = -ENOENT /\ ~hist.fault) => ret = -ENOENT
        /\ AllBlocksMapped => (st.global_error = 0 /\ ret = 0)
        /\ (st.global_error = 1 /\ ~hist.fault) => ret = 0

C2_Witness ==
    /\ BatchRan /\ pc = "done"
    /\ st.global_error = 1 /\ ~hist.fault /\ hist.pass2_blocks = 2 /\ ret = 0

\* C3: during the first pass, once the global error is -ENOENT it is still
\* -ENOENT after every later block, whatever that block returns.
C3_PagedOutSticks ==
    [][(pc = "pass1" /\ st.global_error = -ENOENT)
         => st'.global_error = -ENOENT]_vars

C3_Witness ==
    /\ BatchRan /\ NumBlocks = 2
    /\ PagedBlock(1) /\ GenericBlock(2)
    /\ st.global_error = -ENOENT

\* C4 as claimed: when the first block with a shortfall is Generic, the
\* global error is Generic for the rest of the pass, also after a later
\* block returned -ENOENT.
C4_Original ==
    (BatchRan /\ \E k \in 1..NumBlocks :
                    GenericBlock(k) /\ \A j \in 1..(k - 1) : ~Shortfall(j))
        => st.global_error = 1

\* C4 (amended): the global error is -ENOENT exactly when some block so far
\* returned -ENOENT (also after an earlier Generic block), Generic exactly
\* when some block had a shortfall and none returned -ENOENT, and 0 otherwise.
C4_PagedOutUpgrades ==
    BatchRan =>
        /\ st.global_error = -ENOENT <=> \E k \in 1..NumBlocks : PagedBlock(k)
        /\ st.global_error = 1 <=>
              /\ \E k \in 1..NumBlocks : GenericBlock(k)
              /\ \A k \in 1..NumBlocks : ~PagedBlock(k)
        /\ st.global_error = 0 <=> AllBlocksMapped

C4_Witness ==
    /\ BatchRan /\ NumBlocks = 2
    /\ GenericBlock(1) /\ PagedBlock(2)
    /\ st.global_error = -ENOENT

\* C5: the first pass visits every block even when blocks fail: the block
\* sizes sum to m.num, each block has between 1 and PAGE_SIZE/sizeof(xen_pfn_t)
\* entries, and each block starts with the cursor advanced by the entries
\* before it and the page index by their count / XEN_PFN_PER_PAGE.
C5_BlocksCoverRequest ==
    /\ ~(pc = "BUG" /\ last_op = "mmap_batch")
    /\ BatchRan =>
        /\ Len(hist.block_ret) = NumBlocks
        /\ \A k \in 1..NumBlocks :
              /\ hist.block_nr[k] \in 1..(PAGE_SIZE \div SizeofPfn)
              /\ hist.block_va[k] = m.addr + SumTo(hist.block_nr, k - 1)
              /\ hist.block_index[k] =
                    SumTo([j \in 1..NumBlocks |->
                             hist.block_nr[j] \div XEN_PFN_PER_PAGE], k - 1)
              /\ k > 1 => /\ hist.block_va[k] >= hist.block_va[k - 1]
                          /\ hist.block_index[k] >= hist.block_index[k - 1]
        /\ st.va = m.addr + SumSeq(hist.block_nr)
        /\ pc = "pass1" => SumSeq(hist.block_nr) + nelem = m.num
        /\ Pass1Over => SumSeq(hist.block_nr) = m.num

C5_Witness ==
    /\ Pass1Over /\ NumBlocks = 2 /\ Shortfall(1)
    /\ SumSeq(hist.block_nr) = m.num /\ m.num = MaxNum

\* The pages a batch request req targets.
BatchRange(req) ==
    req.addr..(req.addr + DIV_ROUND_UP(req.num, XEN_PFN_PER_PAGE) - 1)
\* The call met no user-memory fault and no allocation failure.
NoFault == hist.reject \notin {"copy", "gather", "clear", "alloc"} /\ ~hist.fault

\* C6: a batch call on a region whose payload is set, over a range made only
\* of entries last reported paged-out, is not rejected by the region checks
\* (in particular not as already mapped); when no user-memory fault or
\* allocation failure stops it, it runs the first pass over the whole range
\* and returns 0 or -ENOENT, and with -ENOENT some entry of the range is
\* again reported paged-out, all of them entries that were paged-out before.
C6_RetryOfPagedOutAccepted ==
    (last_op = "mmap_batch" /\ hist.retry_paged) =>
        /\ hist.reject \in {"none", "copy", "gather", "clear"}
        /\ hist.reject = "none" => hist.pass1
        /\ (pc = "done" /\ NoFault) =>
              /\ ret \in {0, -ENOENT}
              /\ Len(hist.errs) = m.num
              /\ ret = -ENOENT =>
                    \E i \in 1..m.num :
                        hist.errs[i] = -ENOENT /\ paged_out[m.addr + i - 1]

C6_Witness ==
    /\ last_op = "mmap_batch" /\ hist.retry_paged /\ pc = "done"
    /\ m.addr > vma.vm_start /\ m.num = 1
    /\ \E p \in Pages : pte[p]
    /\ ret = -ENOENT /\ paged_out[m.addr]

\* C7: a batch call on a region whose payload is set and whose target range
\* holds an entry that is already mapped fails before the first pass: it
\* returns an error (-EINVAL unless a user-memory fault or allocation failure
\* came first), issues no remap call and changes neither the page-table
\* entries nor the region or its payload.
C7_AlreadyMappedRejected ==
    [][(/\ pc = "idle" /\ last_op' = "mmap_batch"
        /\ vma.exists /\ vma.vm_private_data # PrivNull
        /\ m'.num > 0
        /\ \E p \in BatchRange(m') : p \in Pages /\ pte[p])
       => (/\ pc' = "done"
           /\ ret' < 0
           /\ hist'.reject \notin {"copy", "gather", "clear"} => ret' = -EINVAL
           /\ ~hist'.pass1 /\ hist'.remap_calls = 0
           /\ pte' = pte
           /\ vma' = vma)]_vars

C7_Witness ==
    /\ pc = "done" /\ last_op = "mmap_batch"
    /\ hist.reject = "already_mapped" /\ ret = -EINVAL
    /\ m.num = 2 /\ ~pte[m.addr] /\ pte[m.addr + 1]
    /\ hist.remap_calls = 0

\* A V1 or V2 batch call has returned after a second pass that ran to its end.
Pass2Complete(version) ==
    /\ BatchRan /\ pc = "done" /\ st.version = version
    /\ ~hist.fault /\ hist.pass2_blocks = NumBlocks /\ NumBlocks > 0

\* C8 as claimed: after the second pass of a V1 call, for every input frame
\* number, a failed entry's slot decodes to "paged" when its error was
\* -ENOENT and to "other" otherwise, and a mapped entry's slot is its input.
C8_Original ==
    Pass2Complete(1) =>
        \A i \in 1..m.num :
            IF hist.errs[i] = 0
            THEN user_arr[i] = InputFrame(m.nib, i - 1)
            ELSE V1Decode(user_arr[i]) =
                    (IF hist.errs[i] = -ENOENT THEN "paged" ELSE "other")

\* C8 (amended): after the second pass of a V1 call, a mapped entry's slot is
\* its input frame number; a failed entry's slot keeps the input's other bits
\* and decodes to "other" when its error was not -ENOENT, for every input;
\* when its error was -ENOENT it decodes to "paged" exactly when bits 28..30
\* of the input frame number are zero.
C8_V1RoundTrip ==
    Pass2Complete(1) =>
        \A i \in 1..m.num :
            IF hist.errs[i] = 0
            THEN user_arr[i] = InputFrame(m.nib, i - 1)
            ELSE /\ user_arr[i].low = InputFrame(m.nib, i - 1).low
                 /\ hist.errs[i] # -ENOENT => V1Decode(user_arr[i]) = "other"
                 /\ hist.errs[i] = -ENOENT =>
                       (V1Decode(user_arr[i]) = "paged" <=> m.nib \in {0, 8})

C8_Witness ==
    /\ Pass2Complete(1) /\ m.nib = 0 /\ m.num = MaxNum
    /\ hist.errs[1] = 0 /\ hist.errs[2] = -ENOENT /\ hist.errs[3] = -EINVAL
    /\ V1Decode(user_arr[2]) = "paged" /\ V1Decode(user_arr[3]) = "other"

\* C9: after a V2 call that ran the first pass and met no fault, the caller's
\* error array holds, for every entry, 0 when the entry was mapped and the
\* entry's error code otherwise; the call returns -ENOENT when a block
\* returned -ENOENT.
C9_V2ErrorArray ==
    (BatchRan /\ pc = "done" /\ st.version = 2 /\ ~hist.fault) =>
        /\ Len(user_err) = m.num
        /\ \A i \in 1..m.num :
              /\ user_err[i] = hist.errs[i]
              /\ user_err[i] = 0 <=> pte[m.addr + i - 1]
        /\ (\E k \in 1..NumBlocks : PagedBlock(k)) => ret = -ENOENT

C9_Witness ==
    /\ Pass2Complete(2) /\ m.num = MaxNum
    /\ user_err = [i \in 1..m.num |-> IF i = 2 THEN -ENOENT ELSE 0]
    /\ ret = -ENOENT

\* C10: while a region lives (from privcmd_mmap to privcmd_close), once its
\* vm_private_data is set no mmap, mmap_batch or mmap_resource call, failing
\* or not, resets it to unset or changes its kind (locked marker, page list).
C10_PayloadFixed ==
    [][(vma.exists /\ vma'.exists /\ vma.vm_private_data # PrivNull)
         => /\ vma'.vm_private_data # PrivNull
            /\ vma'.vm_private_data.kind = vma.vm_private_data.kind]_vars

C10_Witness ==
    /\ pc = "done" /\ last_op = "mmap_resource" /\ ret = -EINVAL
    /\ vma.exists /\ vma.vm_private_data = PRIV_VMA_LOCKED
    /\ \E p \in Pages : paged_out[p]

\* ------------------------------------------------ properties: restriction
\* C11 as claimed: under any interleaving of concurrent restrict calls on one
\* handle, once domid differs from DOMID_INVALID it never changes again, and
\* restrict calls return success for at most one domain id.
C11_Original ==
    [][/\ domid # DOMID_INVALID => domid' = domid
       /\ Cardinality(granted') <= 1]_vars

\* A request arrives at a handle bound to a domain: a raw hypercall, or a
\* request whose header names another domain.
RejectedCase ==
    /\ domid # DOMID_INVALID
    /\ rq.kind = "none" /\ rq'.kind # "none"
    /\ rq'.kind = "hypercall" \/ (rq'.dom \in Doms /\ rq'.dom # domid)

\* C12 as claimed: on a bound handle every request naming another domain,
\* and every raw hypercall, is rejected with -EPERM before its body runs.
C12_Original ==
    [][RejectedCase =>
          /\ rq'.ret = -EPERM
          /\ ~rq'.passed
          /\ UNCHANGED <<domid, exceptRestrict>>]_vars

\* C12 (amended): on a bound handle every request naming another domain, and
\* every raw hypercall, is rejected with an error before its body runs (no
\* hypervisor call, no change to a region, registry or page list). The error
\* is -EPERM, except where the handler checks something else first: -ENOSYS
\* for mmap on an auto-translated guest, -EFAULT for a batch request whose
\* array fails access_ok, -EINVAL for an irqfd or ioeventfd request with
\* unknown flag bits.
C12_RejectedBeforeBody ==
    [][RejectedCase =>
          /\ ~rq'.passed
          /\ rq'.ret < 0
          /\ UNCHANGED <<domid, exceptRestrict>>
          /\ rq'.kind \in {"hypercall", "dm_op", "mmap_resource"} => rq'.ret = -EPERM
          /\ rq'.kind = "mmap" =>
                rq'.ret = (IF auto_translated THEN -ENOSYS ELSE -EPERM)
          /\ rq'.kind = "mmap_batch" => rq'.ret \in {-EPERM, -EFAULT}
          /\ rq'.kind \in {"irqfd", "ioeventfd"} => rq'.ret \in {-EPERM, -EINVAL}]_vars

C12_Witness ==
    /\ domid \in Doms
    /\ rq.kind = "ioeventfd" /\ rq.dom \in Doms /\ rq.dom # domid
    /\ rq.ret = -EPERM /\ ~rq.passed

\* ------------------------------------------------------ ioeventfd claims
\* The handler has just run: the step from idle to its return.
HandlerRan == irq.pc = "idle" /\ irq'.pc = "done"

\* The channel on buffer u.
ChannelOf(list, u) == list[CHOOSE i \in DOMAIN list : list[i].uioreq = u]

\* The slot holds a guest-initiated write that is ready to be served.
ReadyWrite(s) == s.state = "READY" /\ s.type = "COPY" /\ s.dir = "WRITE"

\* The write in slot s is a queue notification for filter f: it goes to the
\* queue-notify register of f's device, with f's width and queue index.
NotifiesFilter(f, s) ==
    /\ s.addr = f.addr + VIRTIO_MMIO_QUEUE_NOTIFY
    /\ s.size = f.addr_len
    /\ s.data % 65536 = f.vq

\* The filters of the channel the handler ran for that the write matches.
HitFilters ==
    LET fs == ChannelOf(ioreq_list, irq'.uioreq).ioeventfds
    IN {k \in DOMAIN fs : NotifiesFilter(fs[k], irq'.ioreq)}

Occurrences(seq, x) == Cardinality({k \in DOMAIN seq : seq[k] = x})

\* C13 as stated: for a ready guest write, every registered filter it matches
\* has its target signalled exactly once, the slot goes Ready -> InProcess ->
\* RespReady and the vcpu's port is notified exactly once.
C13_Original ==
    [][(HandlerRan /\ ReadyWrite(irq'.ioreq)) =>
        \A k \in HitFilters :
          LET fs == ChannelOf(ioreq_list, irq'.uioreq).ioeventfds
          IN /\ irq'.states = <<"READY", "INPROCESS", "RESP_READY">>
             /\ Occurrences(irq'.signals, fs[k].eventfd) = 1
             /\ irq'.notifies = <<PortOf(irq'.uioreq, irq'.vcpu)>>]_vars

\* C13 (amended): for a ready guest write that matches some registered filter
\* of the channel (address = filter address + queue-notify offset, same
\* width, same queue index), the slot goes Ready -> InProcess -> RespReady,
\* the target of the first matching filter in registration order is signalled
\* exactly once and nothing else is, the vcpu's port is notified exactly once,
\* and the interrupt is reported handled.
C13_FirstMatchServed ==
    [][(HandlerRan /\ ReadyWrite(irq'.ioreq) /\ HitFilters # {}) =>
        LET fs == ChannelOf(ioreq_list, irq'.uioreq).ioeventfds
            first == CHOOSE k \in HitFilters : \A j \in HitFilters : k <= j
        IN /\ irq'.states = <<"READY", "INPROCESS", "RESP_READY">>
           /\ irq'.signals = <<fs[first].eventfd>>
           /\ irq'.notifies = <<PortOf(irq'.uioreq, irq'.vcpu)>>
           /\ irq'.ret = "IRQ_HANDLED"
           /\ UNCHANGED <<ioreq_list, ioreq_lock, io>>]_vars

\* A write for queue 2 was served on a channel whose second filter is the
\* one for queue 2.
C13_Witness ==
    /\ irq.pc = "done"
    /\ irq.ret = "IRQ_HANDLED"
    /\ irq.ioreq.data = 2
    /\ \E i \in DOMAIN ioreq_list :
         /\ ioreq_list[i].uioreq = irq.uioreq
         /\ Len(ioreq_list[i].ioeventfds) = 2
         /\ ioreq_list[i].ioeventfds[1].vq = 1
         /\ ioreq_list[i].ioeventfds[2].vq = 2
         /\ irq.signals = <<ioreq_list[i].ioeventfds[2].eventfd>>

\* C14: when the slot is not Ready, or does not hold a guest-initiated write,
\* or no registered filter matches, the handler signals nothing, notifies
\* nothing, reports "not handled", and leaves the slot in the state it
\* started in; a notification is sent only when the slot reached RespReady.
C14_NotServed ==
    [][HandlerRan =>
        /\ (~ReadyWrite(irq'.ioreq) \/ HitFilters = {}) =>
              /\ irq'.signals = <<>>
              /\ irq'.notifies = <<>>
              /\ irq'.ret = "IRQ_NONE"
              /\ irq'.states[Len(irq'.states)] = irq'.states[1]
              /\ irq'.states[1] = irq'.ioreq.state
        /\ irq'.notifies # <<>> =>
              irq'.states[Len(irq'.states)] = "RESP_READY"]_vars

\* A ready guest write went through InProcess and back to Ready because the
\* channel's only filter is for another queue.
C14_Witness ==
    /\ irq.pc = "done"
    /\ irq.ret = "IRQ_NONE"
    /\ irq.states = <<"READY", "INPROCESS", "READY">>
    /\ irq.ioreq.addr = FilterAddr + VIRTIO_MMIO_QUEUE_NOTIFY
    /\ irq.ioreq.size = FilterLen
    /\ \E i \in DOMAIN ioreq_list :
         /\ ioreq_list[i].uioreq = irq.uioreq
         /\ Len(ioreq_list[i].ioeventfds) = 1
         /\ ioreq_list[i].ioeventfds[1].vq # irq.ioreq.data

\* An assign call that passed its argument checks and got its filter object
\* and eventfd has just looked the registry up.
AssignLookedUp ==
    /\ io.pc = "idle"
    /\ io'.op = "assign"
    /\ io'.valid

\* Channel c is on the buffer the call names.
OnRequestedBuffer(c) == c.uioreq = io'.uioreq
SameConfig(c) == c.dom = io'.dom /\ c.vcpus = io'.vcpus
Targets(c) == {c.ioeventfds[k].eventfd : k \in DOMAIN c.ioeventfds}
Channels(list) == {list[i] : i \in DOMAIN list}

NoDuplicateTarget(list) ==
    \A i \in DOMAIN list :
        \A k1, k2 \in DOMAIN list[i].ioeventfds :
            list[i].ioeventfds[k1].eventfd = list[i].ioeventfds[k2].eventfd => k1 = k2

Refused(err) ==
    /\ io'.pc = "done"
    /\ io'.ret = err
    /\ ioreq_list' = ioreq_list
    /\ ~ioreq_lock'

\* C15 as stated: no filter list holds a target twice, and an assign naming
\* an existing channel's buffer and a target already on that channel fails
\* with Busy and changes nothing.
C15_Original ==
    /\ [](NoDuplicateTarget(ioreq_list))
    /\ [][AssignLookedUp =>
            \A c \in Channels(ioreq_list) :
                (OnRequestedBuffer(c) /\ io'.eventfd \in Targets(c)) =>
                    Refused(-EBUSY)]_vars

\* C15 (amended): no filter list holds a target twice, and an assign naming
\* an existing channel's buffer, that channel's guest id and vcpu count, and
\* a target already on that channel fails with Busy and changes nothing.
C15_DuplicateRefused ==
    /\ [](NoDuplicateTarget(ioreq_list))
    /\ [][AssignLookedUp =>
            \A c \in Channels(ioreq_list) :
                (OnRequestedBuffer(c) /\ SameConfig(c) /\ io'.eventfd \in Targets(c)) =>
                    Refused(-EBUSY)]_vars

\* The second assign of a target to the channel that holds it was refused.
C15_Witness ==
    /\ io.pc = "done"
    /\ io.op = "assign"
    /\ io.ret = -EBUSY
    /\ \E i \in DOMAIN ioreq_list :
         /\ ioreq_list[i].uioreq = io.uioreq
         /\ ioreq_list[i].dom = io.dom
         /\ ioreq_list[i].vcpus = io.vcpus
         /\ \E k \in DOMAIN ioreq_list[i].ioeventfds :
              ioreq_list[i].ioeventfds[k].eventfd = io.eventfd

\* The registry as it must be whenever ioreq_lock is free.
RegistryWellFormed(list) ==
    /\ \A i, j \in DOMAIN list : list[i].uioreq = list[j].uioreq => i = j
    /\ \A i \in DOMAIN list : list[i].ioeventfds # <<>>

\* What a step may do to the set of channels.
C16_Step ==
    /\ Len(ioreq_list') > Len(ioreq_list) =>
          /\ AssignLookedUp
          /\ io'.pc = "assign_add"
          /\ \A c \in Channels(ioreq_list) : ~OnRequestedBuffer(c)
          /\ ioreq_list' = Append(ioreq_list,
                                  [uioreq |-> io'.uioreq, dom |-> io'.dom,
                                   vcpus |-> io'.vcpus, ioeventfds |-> <<>>])
    /\ (/\ AssignLookedUp
        /\ io'.pc = "assign_add"
        /\ \A c \in Channels(ioreq_list) : ~OnRequestedBuffer(c)) =>
          Len(ioreq_list') = Len(ioreq_list) + 1
    /\ (io.pc = "assign_add" /\ io'.pc = "done") =>
          /\ io'.ret = 0
          /\ \E i \in DOMAIN ioreq_list :
               /\ ioreq_list[i].uioreq = io.uioreq
               /\ ioreq_list' = [ioreq_list EXCEPT ![i].ioeventfds =
                     Append(@, [eventfd |-> io.eventfd, addr |-> FilterAddr,
                                addr_len |-> FilterLen, vq |-> io.vq])]
    /\ Len(ioreq_list') < Len(ioreq_list) =>
          /\ io.pc = "deassign_free"
          /\ io'.pc = "done"
          /\ io'.ret = 0
          /\ \E i \in DOMAIN ioreq_list :
               /\ ioreq_list[i].ioeventfds = <<>>
               /\ ioreq_list[i].uioreq = io.uioreq
               /\ Channels(ioreq_list') = Channels(ioreq_list) \ {ioreq_list[i]}
               /\ io'.unbound = {ioreq_list[i].uioreq * 10 + v :
                                    v \in 0..(ioreq_list[i].vcpus - 1)}
    /\ io'.unbound # {} => Len(ioreq_list') < Len(ioreq_list)

\* C16: whenever ioreq_lock is free the list holds at most one channel per
\* buffer and every channel has a filter; a channel appears only in a
\* successful assign naming a buffer that had no channel (and then gets that
\* call's filter as its first), and disappears only in the deassign that
\* removed its last filter, which unbinds its ports.
C16_Registry ==
    /\ [](~ioreq_lock => RegistryWellFormed(ioreq_list))
    /\ [][C16_Step]_vars

\* The deassign of a channel's last filter destroyed a two-vcpu channel and
\* unbound both of its ports while another channel stays registered.
C16_Witness ==
    /\ io.pc = "done"
    /\ io.op = "deassign"
    /\ io.ret = 0
    /\ Cardinality(io.unbound) = 2
    /\ Len(ioreq_list) = 1
    /\ ioreq_list[1].uioreq # io.uioreq
    /\ ~ioreq_lock

\* C17: an assign naming an existing channel's buffer with another guest id
\* or vcpu count fails with InvalidArgument, creates no channel and adds no
\* filter; a channel's guest id and vcpu count never change.
C17_MismatchRefused ==
    [][/\ AssignLookedUp =>
            \A c \in Channels(ioreq_list) :
                (OnRequestedBuffer(c) /\ ~SameConfig(c)) => Refused(-EINVAL)
       /\ \A i \in DOMAIN ioreq_list, j \in DOMAIN ioreq_list' :
            ioreq_list[i].uioreq = ioreq_list'[j].uioreq =>
               /\ ioreq_list'[j].dom = ioreq_list[i].dom
               /\ ioreq_list'[j].vcpus = ioreq_list[i].vcpus]_vars

\* An assign for guest 2 on the buffer of a channel of guest 1 was refused.
C17_Witness ==
    /\ io.pc = "done"
    /\ io.op = "assign"
    /\ io.valid
    /\ io.ret = -EINVAL
    /\ io.dom = 2
    /\ \E i \in DOMAIN ioreq_list :
         /\ ioreq_list[i].uioreq = io.uioreq
         /\ ioreq_list[i].dom = 1
         /\ ioreq_list[i].ioeventfds # <<>>

\* ---------------------------------------------------------- irqfd claims
\* The registrations on the list whose eventfd is e.
ActiveFor(e) == {irqfds_list[k] : k \in {j \in DOMAIN irqfds_list :
                                            kirqfds[irqfds_list[j]].eventfd = e}}

\* An assign call that got its memory, its arguments and its eventfd has
\* just gone through the locked section of lines 975-986.
AssignChecked ==
    /\ asg.pc = "idle"
    /\ asg'.pc # "idle"
    /\ asg'.valid

\* C18: an irqfd assign on an eventfd that has a registration on the list
\* fails with Busy, adds nothing to the list and leaves every registration,
\* the existing one included, as it was.
C18_SecondAssignBusy ==
    [][(AssignChecked /\ ActiveFor(asg'.eventfd) # {}) =>
          /\ asg'.pc = "done"
          /\ asg'.ret = -EBUSY
          /\ irqfds_list' = irqfds_list
          /\ kirqfds' = kirqfds]_vars

\* The second assign on an eventfd was refused while the first registration
\* is on the list with its wait entry in place.
C18_Witness ==
    /\ asg.pc = "done"
    /\ asg.ret = -EBUSY
    /\ \E r \in ActiveFor(asg.eventfd) : kirqfds[r].waiting /\ ~kirqfds[r].freed

\* No registration was ever made for eventfd e.
NeverAssigned(e) == \A r \in Regs : kirqfds[r].eventfd # e

\* A step of a deassign call for an eventfd that was valid when the call
\* looked it up.
DeassignStep ==
    /\ dea' # dea
    /\ ~(dea'.pc \in {"idle", "exit", "exited"})
    /\ dea'.ret # -EBADF

\* C19 as stated: a deassign naming a valid eventfd that was never assigned
\* returns NotFound or NoDevice and changes no registration.
C19_Original ==
    [][(DeassignStep /\ NeverAssigned(dea'.eventfd)) =>
          /\ dea'.pc = "done" => dea'.ret \in {-ENOENT, -ENODEV}
          /\ irqfds_list' = irqfds_list
          /\ kirqfds' = kirqfds]_vars

\* C19 (amended): a deassign naming a valid eventfd that was never assigned
\* returns 0 (success) and changes no registration.
C19_ReturnsZero ==
    [][(DeassignStep /\ NeverAssigned(dea'.eventfd)) =>
          /\ dea'.pc = "done" => dea'.ret = 0
          /\ irqfds_list' = irqfds_list
          /\ kirqfds' = kirqfds]_vars

\* A deassign of a never-assigned eventfd returned while another eventfd has
\* a registration on the list.
C19_Witness ==
    /\ dea.pc = "done"
    /\ dea.ret = 0
    /\ dea.target = 0
    /\ NeverAssigned(dea.eventfd)
    /\ irqfds_list # <<>>

\* C20: once a deassign has returned, the registration that was on the list
\* for its eventfd when it started (and whose assign call had returned) has
\* been through irqfd_shutdown, its wait entry is off the eventfd, and
\* irqfd_inject never runs for it again, whatever signals and hang-ups
\* arrive during or after the call.
C20_Drained ==
    /\ [](\A r \in drained : /\ kirqfds[r].freed
                             /\ kirqfds[r].runs >= 1
                             /\ ~kirqfds[r].waiting)
    /\ [][injected' \cap drained' = {}]_vars

\* A deassign returned for a registration whose eventfd was closed (hang-up)
\* before the call returned, and the eventfd of another registration is
\* still being signalled.
C20_Witness ==
    /\ dea.pc = "done"
    /\ dea.target \in drained
    /\ ~efd[dea.eventfd].open
    /\ \E r \in Regs : r # dea.target /\ kirqfds[r].waiting

\* The registrations of eventfd e that irqfd_inject ran for in this step.
InjectedFor(e) == {r \in injected' : kirqfds'[r].eventfd = e}

Existing(e) == {r \in Regs : kirqfds[r].eventfd = e /\ ~kirqfds[r].freed}

\* C27 as stated: at most one registration exists per eventfd at any time.
C27_Original == \A e \in Eventfds : Cardinality(Existing(e)) <= 1

\* C27 (amended): at most one registration per eventfd is on irqfds_list at
\* any time, a registration on the list is neither queued for teardown nor
\* freed, and a registration is freed only by a run of irqfd_shutdown.
C27_OneListed ==
    /\ \A e \in Eventfds : Cardinality(ActiveFor(e)) <= 1
    /\ \A j, k \in DOMAIN irqfds_list : irqfds_list[j] = irqfds_list[k] => j = k
    /\ \A k \in DOMAIN irqfds_list :
         LET r == kirqfds[irqfds_list[k]]
         IN r.eventfd # 0 /\ ~r.freed /\ ~r.pending /\ ~r.running
    /\ \A r \in Regs : kirqfds[r].freed => kirqfds[r].runs >= 1

\* A new registration is on the list for an eventfd while the earlier one,
\* deactivated, still has its wait entry on that eventfd.
C27_Witness ==
    \E e \in Eventfds, r1, r2 \in Regs :
        /\ r1 # r2
        /\ r1 \in ActiveFor(e)
        /\ kirqfds[r2].eventfd = e
        /\ kirqfds[r2].waiting
        /\ ~kirqfds[r2].freed
        /\ kirqfds[r2].pending

\* C28 as stated: the shutdown work of a registration is never queued again
\* once it has started, and irqfd_shutdown runs at most once for it.
C28_Original ==
    /\ [](\A r \in Regs : kirqfds[r].runs <= 1)
    /\ [][\A r \in Regs :
            (kirqfds[r].running \/ kirqfds[r].runs >= 1) =>
                ~(~kirqfds[r].pending /\ kirqfds'[r].pending)]_vars

\* C29 as stated: the registration an assign call created is not freed
\* before that call has finished its pending-event check.
C29_Original == asg.pc = "poll" => ~kirqfds[asg.reg].freed

\* --------------------------------------------- properties: region teardown
CloseRan == pc = "done" /\ last_op = "close"
ReleasesOf(t, i) ==
    Cardinality({k \in DOMAIN t.events :
                    t.events[k].op = "release" /\ t.events[k].page = i})
UnmapsOf(t) == Cardinality({k \in DOMAIN t.events : t.events[k].op = "unmap"})

\* C22 as claimed: privcmd_close on a region holding a page list issues the
\* unmap before it releases any backing page; when the unmap fails it releases
\* none, when it succeeds it releases every backing page exactly once. On a
\* region whose payload is unset or the locked marker it issues no unmap and
\* releases nothing.
C22_Original ==
    CloseRan =>
        LET t == hist.teardown
        IN IF t.array >= 0
           THEN /\ UnmapsOf(t) = 1 /\ t.events[1].op = "unmap"
                /\ t.rc # 0 => Len(t.events) = 1
                /\ t.rc = 0 => \A i \in 1..t.array : ReleasesOf(t, i) = 1
           ELSE t.events = <<>>

\* -------------------------------------------- properties: the page list
\* A call that gathers its input has returned (or stopped in between).
GatherCallDone == pc = "done" /\ last_op \in {"mmap", "mmap_batch"}

\* C23: on every return path of privcmd_ioctl_mmap and
\* privcmd_ioctl_mmap_batch the pages gather_array allocated have all been
\* freed, once, and the list is empty; while the call runs none is freed.
C23_PageListFreed ==
    /\ GatherCallDone => (pagelist = <<>> /\ hist.freed = hist.gathered)
    /\ pc \in {"pass1", "pass2"} =>
          (Len(pagelist) = hist.gathered /\ hist.gathered > 0 /\ hist.freed = 0)

\* A batch call whose second pass faulted has returned with its two pages
\* freed.
C23_Witness ==
    /\ GatherCallDone /\ last_op = "mmap_batch" /\ hist.fault
    /\ hist.gathered = 2 /\ hist.freed = 2 /\ pagelist = <<>>

\* --------------------------------------------- properties: mmap_resource
\* A mmap_resource call that reached xen_remap_domain_mfn_array has returned.
ResourceRemapRan == pc = "done" /\ last_op = "mmap_resource" /\ hist.remap_calls = 1

\* The first non-zero per-entry code (0 when there is none).
RECURSIVE FirstNonZero(_)
FirstNonZero(errs) ==
    IF errs = <<>> THEN 0
    ELSE IF Head(errs) # 0 THEN Head(errs) ELSE FirstNonZero(Tail(errs))

\* C25 as claimed: when the machine-frame remap maps fewer entries than
\* requested (zero included), privcmd_ioctl_mmap_resource returns the first
\* non-zero per-entry error code, which is not 0; it returns 0 only when every
\* requested entry was mapped.
C25_Original ==
    ResourceRemapRan =>
        LET num == hist.block_nr[1]
            r == hist.block_ret[1]
        IN /\ (0 <= r /\ r < num) => (ret # 0 /\ ret = FirstNonZero(hist.errs))
           /\ ret = 0 => r = num

\* ------------------------------------------ properties: alloc_empty_pages
\* C30 as claimed: BUG_ON(vma->vm_private_data != NULL) in alloc_empty_pages
\* never fires: no sequence of mmap_batch and mmap_resource calls on one
\* region of an auto-translated guest enters alloc_empty_pages with the
\* payload already set.
C30_Original == ~(auto_translated /\ pc = "BUG" /\ last_op = "mmap_resource")

\* --------------------------------------- properties: region serialization
\* The thread is between mmap_write_lock and mmap_write_unlock: at the region
\* lookup, the payload check / attach, the first-pass remapping or the unlock.
InSection(t) == lk[t].pc \in {"lookup", "attach", "remap", "unlock"}

\* C24: of two concurrent mapping calls on the region, the lookup, payload
\* check / attach and first-pass remapping of one run entirely before or
\* after those of the other (they run with the address-space lock held, which
\* one thread holds at a time); at most one of the calls in progress or just
\* returned found the payload unset and attached one; a call that has
\* returned does not hold the lock.
C24_Serialized ==
    /\ \A t \in Threads : InSection(t) => mmap_lock = t
    /\ \A t \in Threads : lk[t].pc \in {"idle", "lock", "returned"} => mmap_lock # t
    /\ Cardinality({t \in Threads : lk[t].attached}) <= 1
    /\ \A t \in Threads : lk[t].attached => vma.vm_private_data # PrivNull

\* Two batch calls for the whole region are in progress on a region whose
\* payload was unset: one has attached the payload and is remapping, the other
\* waits for the lock.
C24_Witness ==
    /\ lk[1].op = "mmap_batch" /\ lk[2].op = "mmap_batch"
    /\ lk[1].num = lk[2].num /\ lk[1].num > 1
    /\ lk[1].pc = "remap" /\ lk[1].attached
    /\ lk[2].pc = "lock"
    /\ mmap_lock = 1

\* ------------------------------------- properties: gather and traverse
\* Elements per page: floor(PAGE_SIZE / size).
PerPage == PAGE_SIZE \div tv.size
\* The elements the blocks hold, in the order of the blocks.
RECURSIVE Flatten(_)
Flatten(blocks) ==
    IF blocks = <<>> THEN <<>> ELSE Head(blocks).elems \o Flatten(Tail(blocks))

\* C26: after gather_array of n elements of size s <= PAGE_SIZE the list has
\* ceil(n / floor(PAGE_SIZE / s)) pages. traverse_pages calls its callback n
\* times, the i-th call with the i-th element, page after page in list order,
\* and moves to the next page exactly when no further whole element fits.
\* traverse_pages_block gets the same elements in the same order, one call
\* per page with the elements of that page. A callback that returns non-zero
\* ends the walk with that call and its value is returned.
C26_RoundTrip ==
    /\ tv.pc # "idle" => Len(tv.pages) = DIV_ROUND_UP(tv.n, PerPage)
    /\ tv.pc \in {"traversed", "blocked"} =>
          /\ Len(tv.calls) = (IF tv.stop = 0 THEN tv.n ELSE tv.stop)
          /\ \A i \in DOMAIN tv.calls :
                /\ tv.calls[i].elem = i
                /\ tv.calls[i].page = ((i - 1) \div PerPage) + 1
                /\ tv.calls[i].off = ((i - 1) % PerPage) * tv.size
          /\ \A i \in 1..(Len(tv.calls) - 1) :
                (tv.calls[i + 1].page # tv.calls[i].page)
                   <=> (tv.calls[i].off + 2 * tv.size > PAGE_SIZE)
          /\ tv.stop = 0 => tv.ret = 0
          /\ tv.stop > 0 => (tv.ret # 0 /\ tv.ret = tv.sret)
    /\ tv.pc = "blocked" =>
          LET nblocks == Len(tv.pages)
              stopped == tv.stop > 0 /\ tv.stop <= nblocks
          IN /\ Len(tv.blocks) = (IF stopped THEN tv.stop ELSE nblocks)
             /\ \A k \in DOMAIN tv.blocks :
                   /\ tv.blocks[k].page = k
                   /\ tv.blocks[k].elems = tv.pages[k]
                   /\ tv.blocks[k].nr = Len(tv.pages[k])
             /\ ~stopped => (tv.bret = 0 /\ Flatten(tv.blocks) = [i \in 1..tv.n |-> i])
             /\ stopped => (tv.bret # 0 /\ tv.bret = tv.sret)

\* Five elements of 6 bytes (two to a page, three pages) were walked to the
\* end by both traversals.
C26_Witness ==
    /\ tv.pc = "blocked" /\ tv.n = 5 /\ tv.size = 6 /\ tv.stop = 0
    /\ Len(tv.pages) = 3 /\ Len(tv.calls) = 5 /\ Len(tv.blocks) = 3
    /\ tv.blocks[3].elems = <<5>>

\* ------------------------------------------- properties: channel creation
\* C31 as claimed: alloc_ioreq takes the first backing page only of a region
\* whose payload is a page list; on a region whose payload is unset or the
\* locked marker it reads nothing through the payload, the assign fails with
\* an error and no channel is created.
C31_Original == ~io.wild

====
